---- MODULE Spec2Model ----
(***************************************************************************)
(* Fork synchronisation: the batch orchestrator (startSync) and the        *)
(* per-repository sync engine (syncRepository, initializeRepository,       *)
(* checkForUpstreamChanges, mergeUpstreamChanges) together with the        *)
(* conflict resolver (resolveConflicts).                                   *)
(*                                                                         *)
(* Every awaited call of the controller is one step of the model.  The     *)
(* calls made for the pair that is being processed are recorded, in        *)
(* order, in `calls`; the working copies on disk are `wc`.                 *)
(***************************************************************************)
EXTENDS Naturals, Sequences, FiniteSets, TLC

VARIABLES
  cfg,            \* config argument of startSync
  opts,           \* options argument of startSync
  client,         \* which Repository Client class is bound to GitClient
  wc,             \* working copies on disk, by directory
  baseDirExists,  \* fs.existsSync(repoBaseDir)
  pc,             \* position of the controller
  reposToProcess, \* startSync: the selected pairs
  idx,            \* startSync: index of the pair of the current iteration
  results,        \* startSync: the summary under construction
  final,          \* value startSync resolved with
  cur,            \* locals of syncRepository / mergeUpstreamChanges
  calls,          \* collaborator calls made for the current pair, in order
  ret,            \* how syncRepository completed (returned outcome or thrown error)
  reports         \* sendSyncReport invocations of this batch, in order

vars == <<cfg, opts, client, wc, baseDirExists, pc, reposToProcess, idx,
          results, final, cur, calls, ret, reports>>

(***************************************************************************)
(* Bounds                                                                  *)
(***************************************************************************)
\* longest conflicted-file list the status query returns
MaxFiles == 2

\* largest retry count a configuration file sets
MaxConfiguredRetries == 2

\* most firings of the cron task that are followed
MaxFirings == 3

\* commits on a fork branch beyond which no further run is followed
MaxCommits == 3

(***************************************************************************)
(* Strings (String.prototype.includes / split / trim)                      *)
(***************************************************************************)
Includes(s, sub) ==
  \E i \in 1..(Len(s) + 1) :
    /\ i + Len(sub) - 1 <= Len(s)
    /\ SubSeq(s, i, i + Len(sub) - 1) = sub

\* position of the first occurrence of the one-character separator, 0 if none
RECURSIVE IndexFrom(_, _, _)
IndexFrom(s, sep, i) ==
  IF i > Len(s) THEN 0
  ELSE IF SubSeq(s, i, i) = sep THEN i
  ELSE IndexFrom(s, sep, i + 1)

RECURSIVE Split(_, _)
Split(s, sep) ==
  LET k == IndexFrom(s, sep, 1)
  IN IF k = 0 THEN <<s>>
     ELSE <<SubSeq(s, 1, k - 1)>> \o Split(SubSeq(s, k + 1, Len(s)), sep)

WhiteSpace == {" ", "\n", "\t", "\r"}

RECURSIVE TrimStart(_)
TrimStart(s) ==
  IF Len(s) > 0 /\ SubSeq(s, 1, 1) \in WhiteSpace
  THEN TrimStart(SubSeq(s, 2, Len(s)))
  ELSE s

RECURSIVE TrimEnd(_)
TrimEnd(s) ==
  IF Len(s) > 0 /\ SubSeq(s, Len(s), Len(s)) \in WhiteSpace
  THEN TrimEnd(SubSeq(s, 1, Len(s) - 1))
  ELSE s

Trim(s) == TrimEnd(TrimStart(s))

\* a JavaScript value that is absent
Undefined == "undefined"

\* const [a, b] = array
First(a) == IF Len(a) >= 1 THEN a[1] ELSE Undefined
Second(a) == IF Len(a) >= 2 THEN a[2] ELSE Undefined

(***************************************************************************)
(* Identifiers and directories                                             *)
(***************************************************************************)
parseRepoBranchString(repoBranchStr) ==
  LET parts == Split(repoBranchStr, ":")
      repoFullName == First(parts)
      names == Split(repoFullName, "/")
  IN [repoFullName |-> repoFullName, branch |-> Second(parts),
      owner |-> First(names), repoName |-> Second(names)]

RepoDirOf(base, accountName, forkInfo) ==
  base \o "/" \o accountName \o "-" \o forkInfo.owner \o "-" \o forkInfo.repoName

OriginUrl(token, forkRepoName) == "https://" \o token \o "@github.com/" \o forkRepoName \o ".git"

expectedUpstreamUrl(upstreamRepoName) == "https://github.com/" \o upstreamRepoName \o ".git"

(***************************************************************************)
(* Configuration and inputs                                                *)
(***************************************************************************)
AccountName == "acct"
Token == "tok"
BaseDir == "/base"

Pair1 == [upstream |-> "up/r1:main", fork |-> "me/r1:dev"]
Pair2 == [upstream |-> "up/r2:stable", fork |-> "me/r2:feat"]
Repos == <<Pair1, Pair2>>

Account == [name |-> AccountName, token |-> Token, repos |-> Repos]

Configs ==
  [accounts : {Account}, reposBaseDir : {BaseDir}, email : BOOLEAN,
   sendMailOnFailure : BOOLEAN, runTestsAfterMerge : BOOLEAN]

\* the command lines: no filter, a repository filter naming a fork, an upstream
\* or nothing configured, and an account filter naming another account
Options ==
  { [accountFilter |-> Undefined, repoFilter |-> Undefined],
    [accountFilter |-> AccountName, repoFilter |-> Pair1.fork],
    [accountFilter |-> AccountName, repoFilter |-> Pair2.upstream],
    [accountFilter |-> Undefined, repoFilter |-> "me/r1"],
    [accountFilter |-> "other", repoFilter |-> Undefined] }

\* JavaScript truthiness of an optional string
Truthy(x) == x # Undefined /\ x # ""

DirOfPair(p) == RepoDirOf(BaseDir, AccountName, parseRepoBranchString(p.fork))
Dirs == {DirOfPair(Repos[i]) : i \in 1..Len(Repos)}

(***************************************************************************)
(* Working copies                                                          *)
(***************************************************************************)
Rev(n) == "c" \o ToString(n)

FreshCopy ==
  [exists |-> FALSE, originUrl |-> Undefined, upstreamUrl |-> Undefined,
   branch |-> Undefined, merging |-> FALSE,
   conflicted |-> <<>>, head |-> 0, pushed |-> 0]

ExistingCopy(p, upstreamUrl) ==
  [exists |-> TRUE,
   originUrl |-> OriginUrl("oldtok", parseRepoBranchString(p.fork).repoFullName),
   upstreamUrl |-> upstreamUrl,
   branch |-> parseRepoBranchString(p.fork).branch,
   merging |-> FALSE, conflicted |-> <<>>, head |-> 1, pushed |-> 1]

PairOfDir(d) == CHOOSE p \in {Repos[i] : i \in 1..Len(Repos)} : DirOfPair(p) = d

OtherUrl == "https://example.org/moved.git"

\* the disk the program starts on: nothing cloned yet, or both pairs cloned by
\* an earlier run (with the upstream remote as expected, or pointing elsewhere)
Worlds ==
  { [d \in Dirs |-> FreshCopy],
    [d \in Dirs |-> ExistingCopy(PairOfDir(d),
        expectedUpstreamUrl(parseRepoBranchString(PairOfDir(d).upstream).repoFullName))],
    [d \in Dirs |-> ExistingCopy(PairOfDir(d), OtherUrl)] }

\* methods of class GitClient
GitClientMethods ==
  {"checkIsRepo", "clone", "getRemotes", "addRemote", "fetch", "checkout",
   "merge", "status", "add", "commit", "push", "revList", "revParse", "reset",
   "diff", "getFileContent"}

\* methods of the test double of GitClient
MockMethods == GitClientMethods \cup {"updateRemoteUrl", "branch"}

HasMethod(m) == m \in (IF client = "GitClient" THEN GitClientMethods ELSE MockMethods)

\* outcomes a call of method m can have: it returns, or it throws
CallOutcomes(m) == IF HasMethod(m) THEN {TRUE, FALSE} ELSE {FALSE}

GitErr == "fatal: unable to access remote"
NotAFunction(m) == "git." \o m \o " is not a function"
ErrOf(m) == IF HasMethod(m) THEN GitErr ELSE NotAFunction(m)

Call(op, args, ok) == [op |-> op, args |-> args, ok |-> ok]

(***************************************************************************)
(* Initial state                                                           *)
(***************************************************************************)
NoRet == [kind |-> "none"]
Return(v) == [kind |-> "return", value |-> v]
Throw(m) == [kind |-> "throw", message |-> m]

NoInfo == [repoFullName |-> Undefined, branch |-> Undefined, owner |-> Undefined, repoName |-> Undefined]

CurIdle ==
  [upstreamInfo |-> NoInfo, forkInfo |-> NoInfo, repoDir |-> Undefined,
   hadConflicts |-> FALSE, usedLLM |-> FALSE, originalHead |-> 0,
   mergeError |-> Undefined, conflictedFiles |-> <<>>,
   resolveResult |-> [success |-> FALSE], mergeResult |-> [success |-> FALSE]]

\* as NoResults, but the summary starts out as a failure
NoResults_failed == [success |-> FALSE, syncedRepos |-> 0, failedRepos |-> 0, skippedRepos |-> 0, details |-> <<>>]

NoResults == [success |-> TRUE, syncedRepos |-> 0, failedRepos |-> 0, skippedRepos |-> 0, details |-> <<>>]

Init ==
  /\ cfg \in Configs
  /\ opts \in Options
  /\ client \in {"GitClient", "Mock"}
  /\ wc \in Worlds
  /\ baseDirExists = (\E d \in Dirs : wc[d].exists)
  /\ pc = "idle"
  /\ reposToProcess = <<>>
  /\ idx = 0
  /\ results = NoResults
  /\ final = [kind |-> "pending"]
  /\ cur = CurIdle
  /\ calls = <<>>
  /\ ret = NoRet
  /\ reports = <<>>

(***************************************************************************)
(* startSync                                                               *)
(***************************************************************************)
RECURSIVE SelectSeq2(_, _)
SelectSeq2(s, keep) ==
  IF s = <<>> THEN <<>>
  ELSE (IF Head(s) \in keep THEN <<Head(s)>> ELSE <<>>) \o SelectSeq2(Tail(s), keep)

\* as SelectRepos, but a filter without a branch selects the pairs of that repository
SelectRepos_byName(repos, repoFilter) ==
  IF Truthy(repoFilter)
  THEN SelectSeq2(repos, {repos[i] : i \in {j \in 1..Len(repos) :
                              \/ repos[j].fork = repoFilter \/ repos[j].upstream = repoFilter
                              \/ parseRepoBranchString(repos[j].fork).repoFullName = repoFilter
                              \/ parseRepoBranchString(repos[j].upstream).repoFullName = repoFilter}})
  ELSE repos

\* account.repos.filter(repoConfig => repoConfig.fork === f || repoConfig.upstream === f)
SelectRepos(repos, repoFilter) ==
  IF Truthy(repoFilter)
  THEN SelectSeq2(repos, {repos[i] : i \in {j \in 1..Len(repos) :
                              repos[j].fork = repoFilter \/ repos[j].upstream = repoFilter}})
  ELSE repos

\* as AccountMismatch, but the account filter is not looked at
AccountMismatch_never(accountFilter, account) == FALSE

AccountMismatch(accountFilter, account) == Truthy(accountFilter) /\ account.name # accountFilter

MismatchResult == [success |-> FALSE, message |-> "Account name does not match filter"]

startSync ==
  /\ pc = "idle"
  /\ IF AccountMismatch(opts.accountFilter, cfg.accounts)
     THEN /\ final' = [kind |-> "resolved", value |-> MismatchResult]
          /\ pc' = "finished"
          /\ UNCHANGED <<reposToProcess, idx, results>>
     ELSE /\ results' = NoResults
          /\ reposToProcess' = SelectRepos(cfg.accounts.repos, opts.repoFilter)
          /\ idx' = 1
          /\ pc' = "loop"
          /\ UNCHANGED final
  /\ UNCHANGED <<cfg, opts, client, wc, baseDirExists, cur, calls, ret, reports>>

\* as Collected, but a caught exception only counts and leaves no outcome
Collected_dropThrown(res, r, repoConfig, account) ==
  IF r.kind = "return"
  THEN LET o == r.value
           withDetail == [res EXCEPT !.details = Append(@, o)]
       IN IF o.success
          THEN IF o.status = "synced" THEN [withDetail EXCEPT !.syncedRepos = @ + 1]
               ELSE IF o.status = "skipped" THEN [withDetail EXCEPT !.skippedRepos = @ + 1]
               ELSE withDetail
          ELSE [withDetail EXCEPT !.failedRepos = @ + 1, !.success = FALSE]
  ELSE [res EXCEPT !.failedRepos = @ + 1, !.success = FALSE]

\* as Collected, but a failed outcome does not flip the verdict of the batch
Collected_keepSuccess(res, r, repoConfig, account) ==
  IF r.kind = "return"
  THEN LET o == r.value
           withDetail == [res EXCEPT !.details = Append(@, o)]
       IN IF o.success
          THEN IF o.status = "synced" THEN [withDetail EXCEPT !.syncedRepos = @ + 1]
               ELSE IF o.status = "skipped" THEN [withDetail EXCEPT !.skippedRepos = @ + 1]
               ELSE withDetail
          ELSE [withDetail EXCEPT !.failedRepos = @ + 1]
  ELSE [res EXCEPT !.failedRepos = @ + 1, !.success = FALSE,
                   !.details = Append(@, [repository |-> repoConfig.fork,
                                          account |-> account.name,
                                          success |-> FALSE, status |-> "error",
                                          error |-> r.message])]

\* as Collected, but the caught exception's message is replaced by a fixed text
Collected_noMessage(res, r, repoConfig, account) ==
  IF r.kind = "return"
  THEN LET o == r.value
           withDetail == [res EXCEPT !.details = Append(@, o)]
       IN IF o.success
          THEN IF o.status = "synced" THEN [withDetail EXCEPT !.syncedRepos = @ + 1]
               ELSE IF o.status = "skipped" THEN [withDetail EXCEPT !.skippedRepos = @ + 1]
               ELSE withDetail
          ELSE [withDetail EXCEPT !.failedRepos = @ + 1, !.success = FALSE]
  ELSE [res EXCEPT !.failedRepos = @ + 1, !.success = FALSE,
                   !.details = Append(@, [repository |-> repoConfig.fork,
                                          account |-> account.name,
                                          success |-> FALSE, status |-> "error",
                                          error |-> "Sync failed"])]

\* as Collected, but an outcome without drift is recorded and not counted
Collected_uncountedSkip(res, r, repoConfig, account) ==
  IF r.kind = "return"
  THEN LET o == r.value
           withDetail == [res EXCEPT !.details = Append(@, o)]
       IN IF o.success
          THEN IF o.status = "synced" THEN [withDetail EXCEPT !.syncedRepos = @ + 1]
               ELSE withDetail
          ELSE [withDetail EXCEPT !.failedRepos = @ + 1, !.success = FALSE]
  ELSE [res EXCEPT !.failedRepos = @ + 1, !.success = FALSE,
                   !.details = Append(@, [repository |-> repoConfig.fork,
                                          account |-> account.name,
                                          success |-> FALSE, status |-> "error",
                                          error |-> r.message])]

\* the bookkeeping of one loop iteration of startSync on the completion of syncRepository
Collected(res, r, repoConfig, account) ==
  IF r.kind = "return"
  THEN LET o == r.value
           withDetail == [res EXCEPT !.details = Append(@, o)]
       IN IF o.success
          THEN IF o.status = "synced" THEN [withDetail EXCEPT !.syncedRepos = @ + 1]
               ELSE IF o.status = "skipped" THEN [withDetail EXCEPT !.skippedRepos = @ + 1]
               ELSE withDetail
          ELSE [withDetail EXCEPT !.failedRepos = @ + 1, !.success = FALSE]
  ELSE [res EXCEPT !.failedRepos = @ + 1, !.success = FALSE,
                   !.details = Append(@, [repository |-> repoConfig.fork,
                                          account |-> account.name,
                                          success |-> FALSE, status |-> "error",
                                          error |-> r.message])]

Collect ==
  /\ pc = "collect"
  /\ results' = Collected(results, ret, reposToProcess[idx], cfg.accounts)
  /\ idx' = idx + 1
  /\ pc' = "loop"
  /\ ret' = NoRet
  /\ cur' = CurIdle
  /\ calls' = <<>>
  /\ UNCHANGED <<cfg, opts, client, wc, baseDirExists, reposToProcess, final, reports>>

\* as ShouldReport, but only activity counts
ShouldReport_activityOnly(c, res) ==
  c.email /\ (res.syncedRepos > 0 \/ res.failedRepos > 0)

ShouldReport(c, res) ==
  c.email /\ (res.syncedRepos > 0 \/ res.failedRepos > 0 \/ c.sendMailOnFailure)

\* the loop is over: sendSyncReport when due (it may reject), then return results
Report ==
  /\ pc = "loop"
  /\ idx > Len(reposToProcess)
  /\ IF ShouldReport(cfg, results)
     THEN \E ok \in BOOLEAN : reports' = Append(reports, [summary |-> results, ok |-> ok])
     ELSE reports' = reports
  /\ final' = [kind |-> "resolved", value |-> results]
  /\ pc' = "finished"
  /\ UNCHANGED <<cfg, opts, client, wc, baseDirExists, reposToProcess, idx, results, cur, calls, ret>>

(***************************************************************************)
(* syncRepository: entry (synchronous part, up to the first await)         *)
(***************************************************************************)
envVars == <<cfg, opts, client>>
batchVars == <<reposToProcess, idx, results, final, reports>>

\* as Dir, but every pair works in the directory of the first selected pair
Dir_firstPair == DirOfPair(reposToProcess[1])

\* the working copy the engine operates on
Dir == cur.repoDir
forkBranch == cur.forkInfo.branch
upstreamBranch == cur.upstreamInfo.branch

MkdirErr == "EACCES: permission denied, mkdir"
ConstructErr == "Cannot use simple-git on a directory that does not exist"

syncRepository ==
  /\ pc = "loop"
  /\ idx <= Len(reposToProcess)
  /\ LET repoConfig == reposToProcess[idx]
         upstreamInfo == parseRepoBranchString(repoConfig.upstream)
         forkInfo == parseRepoBranchString(repoConfig.fork)
         repoDir == RepoDirOf(cfg.reposBaseDir, cfg.accounts.name, forkInfo)
         entered == [CurIdle EXCEPT !.upstreamInfo = upstreamInfo,
                                    !.forkInfo = forkInfo, !.repoDir = repoDir]
     IN /\ cur' = entered
        /\ \/ \* fs.mkdirSync throws
              /\ ~baseDirExists
              /\ calls' = <<Call("mkdirSync", <<cfg.reposBaseDir>>, FALSE)>>
              /\ ret' = Throw(MkdirErr)
              /\ pc' = "collect"
              /\ UNCHANGED baseDirExists
           \/ \* new GitClient throws
              /\ client = "GitClient"
              /\ baseDirExists' = TRUE
              /\ calls' = <<Call("GitClient", <<repoDir>>, FALSE)>>
              /\ ret' = Throw(ConstructErr)
              /\ pc' = "collect"
           \/ /\ baseDirExists' = TRUE
              /\ calls' = <<Call("GitClient", <<repoDir>>, TRUE)>>
              /\ ret' = NoRet
              /\ pc' = "checkIsRepo"
  /\ UNCHANGED <<envVars, batchVars, wc>>

(***************************************************************************)
(* initializeRepository                                                    *)
(***************************************************************************)
InitFailure(c) ==
  [repository |-> c.forkInfo.repoFullName, account |-> cfg.accounts.name,
   success |-> FALSE, status |-> "error", error |-> "Failed to initialize repository"]

\* as InitFailed, but the error leaves initializeRepository and syncRepository
InitFailed_rethrow ==
  /\ ret' = Throw(GitErr)
  /\ pc' = "collect"

\* catch of initializeRepository: return false, and syncRepository returns the failure
InitFailed ==
  /\ ret' = Return(InitFailure(cur))
  /\ pc' = "collect"

checkIsRepo ==
  /\ pc = "checkIsRepo"
  /\ \/ /\ calls' = Append(calls, Call("checkIsRepo", <<>>, TRUE))
        /\ pc' = IF wc[Dir].exists THEN "updateOrigin" ELSE "clone"
        /\ UNCHANGED ret
     \/ /\ client = "Mock"
        /\ calls' = Append(calls, Call("checkIsRepo", <<>>, FALSE))
        /\ InitFailed
  /\ UNCHANGED <<envVars, batchVars, wc, baseDirExists, cur>>

clone ==
  /\ pc = "clone"
  /\ LET url == OriginUrl(cfg.accounts.token, cur.forkInfo.repoFullName)
     IN \E ok \in CallOutcomes("clone") :
          /\ calls' = Append(calls, Call("clone", <<url>>, ok))
          /\ IF ok
             THEN /\ wc' = [wc EXCEPT ![Dir] = [FreshCopy EXCEPT !.exists = TRUE,
                                   !.originUrl = url, !.branch = "main", !.head = 1, !.pushed = 1]]
                  /\ pc' = "getRemotes"
                  /\ UNCHANGED ret
             ELSE /\ InitFailed
                  /\ UNCHANGED wc
  /\ UNCHANGED <<envVars, batchVars, baseDirExists, cur>>

updateOrigin ==
  /\ pc = "updateOrigin"
  /\ LET url == OriginUrl(cfg.accounts.token, cur.forkInfo.repoFullName)
     IN \E ok \in CallOutcomes("updateRemoteUrl") :
          /\ calls' = Append(calls, Call("updateRemoteUrl", <<"origin", url>>, ok))
          /\ IF ok
             THEN /\ wc' = [wc EXCEPT ![Dir].originUrl = url]
                  /\ pc' = "getRemotes"
                  /\ UNCHANGED ret
             ELSE /\ InitFailed
                  /\ UNCHANGED wc
  /\ UNCHANGED <<envVars, batchVars, baseDirExists, cur>>

\* as UpstreamAction, but an upstream remote that exists is left as it is
UpstreamAction_addOnly(upstreamUrl, expected) ==
  IF upstreamUrl = Undefined THEN "addRemote" ELSE "fetchAll"

\* what initializeRepository does about the upstream remote it finds
UpstreamAction(upstreamUrl, expected) ==
  IF upstreamUrl = Undefined THEN "addRemote"
  ELSE IF upstreamUrl # expected THEN "updateUpstream"
  ELSE "fetchAll"

getRemotes ==
  /\ pc = "getRemotes"
  /\ \E ok \in CallOutcomes("getRemotes") :
       /\ calls' = Append(calls, Call("getRemotes", <<>>, ok))
       /\ IF ok
          THEN /\ pc' = UpstreamAction(wc[Dir].upstreamUrl,
                                       expectedUpstreamUrl(cur.upstreamInfo.repoFullName))
               /\ UNCHANGED ret
          ELSE InitFailed
  /\ UNCHANGED <<envVars, batchVars, wc, baseDirExists, cur>>

addRemote ==
  /\ pc = "addRemote"
  /\ LET url == expectedUpstreamUrl(cur.upstreamInfo.repoFullName)
     IN \E ok \in CallOutcomes("addRemote") :
          /\ calls' = Append(calls, Call("addRemote", <<"upstream", url>>, ok))
          /\ IF ok
             THEN /\ wc' = [wc EXCEPT ![Dir].upstreamUrl = url]
                  /\ pc' = "fetchAll"
                  /\ UNCHANGED ret
             ELSE /\ InitFailed
                  /\ UNCHANGED wc
  /\ UNCHANGED <<envVars, batchVars, baseDirExists, cur>>

updateUpstream ==
  /\ pc = "updateUpstream"
  /\ LET url == expectedUpstreamUrl(cur.upstreamInfo.repoFullName)
     IN \E ok \in CallOutcomes("updateRemoteUrl") :
          /\ calls' = Append(calls, Call("updateRemoteUrl", <<"upstream", url>>, ok))
          /\ IF ok
             THEN /\ wc' = [wc EXCEPT ![Dir].upstreamUrl = url]
                  /\ pc' = "fetchAll"
                  /\ UNCHANGED ret
             ELSE /\ InitFailed
                  /\ UNCHANGED wc
  /\ UNCHANGED <<envVars, batchVars, baseDirExists, cur>>

fetchAll ==
  /\ pc = "fetchAll"
  /\ \E ok \in CallOutcomes("fetch") :
       /\ calls' = Append(calls, Call("fetch", <<"--all">>, ok))
       /\ IF ok THEN pc' = "initCheckout" /\ UNCHANGED ret ELSE InitFailed
  /\ UNCHANGED <<envVars, batchVars, wc, baseDirExists, cur>>

initCheckout ==
  /\ pc = "initCheckout"
  /\ \E ok \in CallOutcomes("checkout") :
       /\ calls' = Append(calls, Call("checkout", <<forkBranch>>, ok))
       /\ IF ok
          THEN /\ wc' = [wc EXCEPT ![Dir].branch = forkBranch]
               /\ pc' = "setTracking"
               /\ UNCHANGED ret
          ELSE /\ InitFailed
               /\ UNCHANGED wc
  /\ UNCHANGED <<envVars, batchVars, baseDirExists, cur>>

\* as setTracking, but a failure to bind the tracking reference fails the initialization
setTracking_fatal ==
  /\ pc = "setTracking"
  /\ \E ok \in CallOutcomes("branch") :
       /\ calls' = Append(calls, Call("branch", <<"--set-upstream-to", "origin/" \o forkBranch>>, ok))
       /\ IF ok THEN pc' = "driftCheckout" /\ UNCHANGED ret ELSE InitFailed
  /\ UNCHANGED <<envVars, batchVars, wc, baseDirExists, cur>>

\* git.branch(['--set-upstream-to', ...]) in its own try: a failure is only logged
setTracking ==
  /\ pc = "setTracking"
  /\ \E ok \in CallOutcomes("branch") :
       calls' = Append(calls, Call("branch", <<"--set-upstream-to", "origin/" \o forkBranch>>, ok))
  /\ pc' = "driftCheckout"
  /\ UNCHANGED <<envVars, batchVars, wc, baseDirExists, cur, ret>>

(***************************************************************************)
(* checkForUpstreamChanges                                                 *)
(***************************************************************************)
\* as SyncCaught, but the error is reported under the initialization text
SyncCaught_initText(c, message) ==
  [repository |-> c.forkInfo.repoFullName, account |-> cfg.accounts.name,
   success |-> FALSE, status |-> "error", error |-> "Failed to initialize repository"]

\* catch of syncRepository
SyncCaught(c, message) ==
  [repository |-> c.forkInfo.repoFullName, account |-> cfg.accounts.name,
   success |-> FALSE, status |-> "error", error |-> message]

Skipped(c) ==
  [repository |-> c.forkInfo.repoFullName, account |-> cfg.accounts.name,
   success |-> TRUE, status |-> "skipped", message |-> "No upstream changes to sync"]

DriftFailed(message) ==
  /\ ret' = Return(SyncCaught(cur, message))
  /\ pc' = "collect"

driftCheckout ==
  /\ pc = "driftCheckout"
  /\ \E ok \in CallOutcomes("checkout") :
       /\ calls' = Append(calls, Call("checkout", <<forkBranch>>, ok))
       /\ IF ok THEN pc' = "driftFetch" /\ UNCHANGED ret ELSE DriftFailed(GitErr)
  /\ UNCHANGED <<envVars, batchVars, wc, baseDirExists, cur>>

\* as driftFetch, but every remote is fetched
driftFetch_all ==
  /\ pc = "driftFetch"
  /\ \E ok \in CallOutcomes("fetch") :
       /\ calls' = Append(calls, Call("fetch", <<"--all">>, ok))
       /\ IF ok THEN pc' = "revList" /\ UNCHANGED ret ELSE DriftFailed(GitErr)
  /\ UNCHANGED <<envVars, batchVars, wc, baseDirExists, cur>>

driftFetch ==
  /\ pc = "driftFetch"
  /\ \E ok \in CallOutcomes("fetch") :
       /\ calls' = Append(calls, Call("fetch", <<"upstream">>, ok))
       /\ IF ok THEN pc' = "revList" /\ UNCHANGED ret ELSE DriftFailed(GitErr)
  /\ UNCHANGED <<envVars, batchVars, wc, baseDirExists, cur>>

\* texts git rev-list can print
RevListOutputs == {"", "\n", "c9\n"}

hasChanges_untrimmed(revList) == Len(revList) > 0

hasChanges(revList) == Len(Trim(revList)) > 0

revList ==
  /\ pc = "revList"
  /\ LET range == forkBranch \o "..upstream/" \o upstreamBranch
     IN \/ \E out \in RevListOutputs :
             /\ calls' = Append(calls, Call("revList", <<range>>, TRUE) @@ ("res" :> out))
             /\ IF hasChanges(out)
                THEN pc' = "mergeCheckout" /\ UNCHANGED ret
                ELSE ret' = Return(Skipped(cur)) /\ pc' = "collect"
        \/ /\ calls' = Append(calls, Call("revList", <<range>>, FALSE))
           /\ DriftFailed(GitErr)
  /\ UNCHANGED <<envVars, batchVars, wc, baseDirExists, cur>>

(***************************************************************************)
(* mergeUpstreamChanges                                                    *)
(***************************************************************************)
\* a record field that is present only when the JavaScript value is defined
Opt(field, present, value) == IF present THEN field :> value ELSE <<>>

\* as OutcomeOf, but a failed merge is reported under a status of its own
OutcomeOf_failedStatus(c, mergeResult) ==
  [repository |-> c.forkInfo.repoFullName, account |-> cfg.accounts.name,
   success |-> mergeResult.success,
   status |-> IF mergeResult.success THEN "synced" ELSE "failed",
   hadConflicts |-> mergeResult.hadConflicts, usedLLM |-> mergeResult.usedLLM]
  @@ Opt("testsStatus", "testsStatus" \in DOMAIN mergeResult,
         IF "testsStatus" \in DOMAIN mergeResult THEN mergeResult.testsStatus ELSE Undefined)
  @@ Opt("message", "message" \in DOMAIN mergeResult,
         IF "message" \in DOMAIN mergeResult THEN mergeResult.message ELSE Undefined)
  @@ Opt("error", "error" \in DOMAIN mergeResult,
         IF "error" \in DOMAIN mergeResult THEN mergeResult.error ELSE Undefined)

\* the object syncRepository returns after mergeUpstreamChanges
OutcomeOf(c, mergeResult) ==
  [repository |-> c.forkInfo.repoFullName, account |-> cfg.accounts.name,
   success |-> mergeResult.success,
   status |-> IF mergeResult.success THEN "synced" ELSE "error",
   hadConflicts |-> mergeResult.hadConflicts, usedLLM |-> mergeResult.usedLLM]
  @@ Opt("testsStatus", "testsStatus" \in DOMAIN mergeResult,
         IF "testsStatus" \in DOMAIN mergeResult THEN mergeResult.testsStatus ELSE Undefined)
  @@ Opt("message", "message" \in DOMAIN mergeResult,
         IF "message" \in DOMAIN mergeResult THEN mergeResult.message ELSE Undefined)
  @@ Opt("error", "error" \in DOMAIN mergeResult,
         IF "error" \in DOMAIN mergeResult THEN mergeResult.error ELSE Undefined)

\* as AfterMerge, but the test gate looks at the flag only
AfterMerge_ungated(c, mergeResult) ==
  /\ cur' = [c EXCEPT !.mergeResult = mergeResult]
  /\ IF cfg.runTestsAfterMerge
     THEN pc' = "runTests" /\ ret' = NoRet
     ELSE pc' = "collect" /\ ret' = Return(OutcomeOf(c, mergeResult))

\* mergeUpstreamChanges returned mergeResult: the test gate, or the return of syncRepository
AfterMerge(c, mergeResult) ==
  /\ cur' = [c EXCEPT !.mergeResult = mergeResult]
  /\ IF cfg.runTestsAfterMerge /\ mergeResult.success
     THEN pc' = "runTests" /\ ret' = NoRet
     ELSE pc' = "collect" /\ ret' = Return(OutcomeOf(c, mergeResult))

\* outer catch of mergeUpstreamChanges
MergeCaught(c, message) ==
  [success |-> FALSE, hadConflicts |-> c.hadConflicts, usedLLM |-> c.usedLLM,
   error |-> "Failed to merge changes into " \o c.forkInfo.branch \o " from upstream/"
             \o c.upstreamInfo.branch \o ": " \o message]

CleanMerge(c) ==
  [success |-> TRUE, hadConflicts |-> c.hadConflicts, usedLLM |-> c.usedLLM,
   message |-> "Successfully merged upstream/" \o c.upstreamInfo.branch \o " into "
               \o c.forkInfo.branch \o " and pushed to origin/" \o c.forkInfo.branch]

NoFilesFailure(c) ==
  [success |-> FALSE, hadConflicts |-> c.hadConflicts, usedLLM |-> FALSE,
   error |-> "Failed to identify conflicted files for resolution.",
   message |-> "Merge aborted as conflicted files could not be determined."]

ResolvedMerge(c) ==
  [success |-> TRUE, hadConflicts |-> c.hadConflicts, usedLLM |-> c.usedLLM,
   message |-> "Successfully resolved " \o ToString(Len(c.conflictedFiles))
               \o " conflicts in " \o c.forkInfo.branch \o " from upstream/"
               \o c.upstreamInfo.branch \o " and pushed changes"]

UnresolvedMerge_generic(c) ==
  [success |-> FALSE, hadConflicts |-> c.hadConflicts, usedLLM |-> c.usedLLM,
   error |-> "Failed to resolve conflicts for " \o c.forkInfo.branch \o " from upstream/"
             \o c.upstreamInfo.branch,
   message |-> "Merge of upstream/" \o c.upstreamInfo.branch \o " into "
               \o c.forkInfo.branch \o " aborted due to unresolvable conflicts."]

UnresolvedMerge(c) ==
  [success |-> FALSE, hadConflicts |-> c.hadConflicts, usedLLM |-> c.usedLLM,
   error |-> "Failed to resolve conflicts for " \o c.forkInfo.branch \o " from upstream/"
             \o c.upstreamInfo.branch \o ": " \o c.resolveResult.error,
   message |-> "Merge of upstream/" \o c.upstreamInfo.branch \o " into "
               \o c.forkInfo.branch \o " aborted due to unresolvable conflicts."]

PushArgs_upstreamBranch(c) == <<"origin", c.upstreamInfo.branch>>

PushArgs(c) == <<"origin", c.forkInfo.branch>>

mergeCheckout ==
  /\ pc = "mergeCheckout"
  /\ \E ok \in CallOutcomes("checkout") :
       /\ calls' = Append(calls, Call("checkout", <<forkBranch>>, ok))
       /\ IF ok
          THEN pc' = "revParse" /\ UNCHANGED <<ret, cur>>
          ELSE AfterMerge(cur, MergeCaught(cur, GitErr))
  /\ UNCHANGED <<envVars, batchVars, wc, baseDirExists>>

revParse ==
  /\ pc = "revParse"
  /\ \E ok \in CallOutcomes("revParse") :
       IF ok
       THEN /\ calls' = Append(calls, Call("revParse", <<"HEAD">>, TRUE) @@ ("res" :> Rev(wc[Dir].head)))
            /\ cur' = [cur EXCEPT !.originalHead = wc[Dir].head]
            /\ pc' = "merge"
            /\ UNCHANGED ret
       ELSE /\ calls' = Append(calls, Call("revParse", <<"HEAD">>, FALSE))
            /\ AfterMerge(cur, MergeCaught(cur, GitErr))
  /\ UNCHANGED <<envVars, batchVars, wc, baseDirExists>>

\* messages git merge fails with
ConflictErr == "CONFLICTS: a.txt:content"
FailedToMergeErr == "Automatic merge failed; failed to merge"
UnrelatedErr == "fatal: refusing to merge unrelated histories"
GitConflictErr == "CONFLICT (content): Merge conflict in a.txt\nAutomatic merge failed; fix conflicts"
MergeErrs == {ConflictErr, FailedToMergeErr, UnrelatedErr, GitConflictErr}

\* messages git push fails with (a rejected push relays the remote's own text)
PushRejected == "error: failed to push some refs"
PushHookErr == "remote: CONFLICT with protected branch"
PushErrs == {PushRejected, PushHookErr}

FileNames == <<"a.txt", "b.txt", "c.txt", "d.txt">>
\* the lists of conflicted paths a failed merge leaves behind
ConflictLists == {SubSeq(FileNames, 1, n) : n \in 0..MaxFiles}

\* as isConflict, but every failure of the merge is taken for a conflict
isConflict_anyFailure(message) == TRUE

isConflict(message) == Includes(message, "CONFLICT") \/ Includes(message, "failed to merge")

\* as MergeErrorCaught, but the conflict is not recorded in hadConflicts
MergeErrorCaught_noFlag(c, message) ==
  IF isConflict(message)
  THEN /\ cur' = [c EXCEPT !.mergeError = message]
       /\ pc' = "status"
       /\ UNCHANGED ret
  ELSE AfterMerge(c, MergeCaught(c, message))

\* catch (mergeError) around merge and the first push
MergeErrorCaught(c, message) ==
  IF isConflict(message)
  THEN /\ cur' = [c EXCEPT !.hadConflicts = TRUE, !.mergeError = message]
       /\ pc' = "status"
       /\ UNCHANGED ret
  ELSE AfterMerge(c, MergeCaught(c, message))

merge ==
  /\ pc = "merge"
  /\ LET ref == "upstream/" \o upstreamBranch
     IN \/ /\ calls' = Append(calls, Call("merge", <<ref>>, TRUE))
           /\ wc' = [wc EXCEPT ![Dir].head = @ + 1]
           /\ pc' = "push"
           /\ UNCHANGED <<ret, cur>>
        \/ \E message \in MergeErrs :
             /\ calls' = Append(calls, Call("merge", <<ref>>, FALSE))
             /\ \/ /\ isConflict(message)
                   /\ \E files \in ConflictLists :
                        wc' = [wc EXCEPT ![Dir].merging = TRUE, ![Dir].conflicted = files]
                \/ /\ ~isConflict(message)
                   /\ UNCHANGED wc
             /\ MergeErrorCaught(cur, message)
  /\ UNCHANGED <<envVars, batchVars, baseDirExists>>

push ==
  /\ pc = "push"
  /\ \/ /\ calls' = Append(calls, Call("push", PushArgs(cur), TRUE))
        /\ wc' = [wc EXCEPT ![Dir].pushed = wc[Dir].head]
        /\ AfterMerge(cur, CleanMerge(cur))
     \/ \E message \in PushErrs :
          /\ calls' = Append(calls, Call("push", PushArgs(cur), FALSE))
          /\ MergeErrorCaught(cur, message)
          /\ UNCHANGED wc
  /\ UNCHANGED <<envVars, batchVars, baseDirExists>>

\* the text /CONFLICT \(content\): Merge conflict in ([^\s]+)/g looks for
ConflictMatcherPrefix == "CONFLICT (content): Merge conflict in "

RECURSIVE NonSpaceRun(_, _)
\* ([^\s]+): the characters of s from position i up to the next white space
NonSpaceRun(s, i) ==
  IF i > Len(s) \/ SubSeq(s, i, i) \in WhiteSpace THEN ""
  ELSE SubSeq(s, i, i) \o NonSpaceRun(s, i + 1)

RECURSIVE MatchesFrom(_, _)
\* the captures of the successive matches of the matcher in message, from position i
MatchesFrom(message, i) ==
  LET n == Len(ConflictMatcherPrefix)
  IN IF i + n > Len(message) THEN <<>>
     ELSE IF SubSeq(message, i, i + n - 1) = ConflictMatcherPrefix
               /\ Len(NonSpaceRun(message, i + n)) > 0
          THEN <<NonSpaceRun(message, i + n)>>
                 \o MatchesFrom(message, i + n + Len(NonSpaceRun(message, i + n)))
          ELSE MatchesFrom(message, i + 1)

filesFromError(message) == MatchesFrom(message, 1)

\* as FilesForResolver, but with the paths named by the error message when status lists none
FilesForResolver_fromMessage(conflicted, fromError) ==
  IF Len(conflicted) = 0 THEN fromError ELSE conflicted

\* conflictedFiles: the list of the status query; filesFromError is only logged
FilesForResolver(conflicted, fromError) == conflicted

\* git.status(); mergeError is not read after the file list has been decided
status ==
  /\ pc = "status"
  /\ \E ok \in CallOutcomes("status") :
       IF ok
       THEN LET conflicted == wc[Dir].conflicted
                fromError == filesFromError(cur.mergeError)
                files == FilesForResolver(conflicted, fromError)
                asked == Append(calls, Call("status", <<>>, TRUE) @@ ("res" :> conflicted))
            IN /\ calls' = IF Len(conflicted) = 0 /\ Len(fromError) > 0
                           THEN Append(asked, Call("warn", fromError, TRUE))
                           ELSE asked
               /\ cur' = [cur EXCEPT !.conflictedFiles = files, !.mergeError = Undefined]
               /\ pc' = IF Len(files) = 0 THEN "abortNoFiles" ELSE "resolveConflicts"
               /\ UNCHANGED ret
       ELSE /\ calls' = Append(calls, Call("status", <<>>, FALSE))
            /\ AfterMerge([cur EXCEPT !.mergeError = Undefined], MergeCaught(cur, GitErr))
  /\ UNCHANGED <<envVars, batchVars, wc, baseDirExists>>

AbortErr == "fatal: There is no merge to abort (MERGE_HEAD missing)."

\* git merge --abort when status lists no conflicted file
abortNoFiles ==
  /\ pc = "abortNoFiles"
  /\ \E ok \in CallOutcomes("merge") :
       /\ calls' = Append(calls, Call("merge", <<"--abort">>, ok))
       /\ IF ok
          THEN /\ wc' = [wc EXCEPT ![Dir].merging = FALSE, ![Dir].conflicted = <<>>]
               /\ AfterMerge(cur, NoFilesFailure(cur))
          ELSE /\ UNCHANGED wc
               /\ AfterMerge(cur, MergeCaught(cur, AbortErr))
  /\ UNCHANGED <<envVars, batchVars, baseDirExists>>

(***************************************************************************)
(* resolveConflicts                                                        *)
(***************************************************************************)
\* how the processing of one conflicted file can end
FileFailures == {"read", "generate", "empty", "write", "add"}

\* as FileCalls, but the rewritten file is not staged
FileCalls_noAdd(f, how) ==
  IF how = "read" THEN <<Call("readFile", <<f>>, FALSE)>>
  ELSE IF how = "generate" THEN <<Call("readFile", <<f>>, TRUE), Call("generateText", <<f>>, FALSE)>>
  ELSE IF how = "empty" THEN <<Call("readFile", <<f>>, TRUE), Call("generateText", <<f>>, TRUE) @@ ("res" :> "")>>
  ELSE IF how = "write" THEN <<Call("readFile", <<f>>, TRUE), Call("generateText", <<f>>, TRUE),
                              Call("writeFile", <<f>>, FALSE)>>
  ELSE IF how = "add" THEN <<Call("readFile", <<f>>, TRUE), Call("generateText", <<f>>, TRUE),
                            Call("writeFile", <<f>>, TRUE), Call("add", <<f>>, FALSE)>>
  ELSE <<Call("readFile", <<f>>, TRUE), Call("generateText", <<f>>, TRUE),
         Call("writeFile", <<f>>, TRUE)>>

\* the calls resolveConflicts makes for one file
FileCalls(f, how) ==
  IF how = "read" THEN <<Call("readFile", <<f>>, FALSE)>>
  ELSE IF how = "generate" THEN <<Call("readFile", <<f>>, TRUE), Call("generateText", <<f>>, FALSE)>>
  ELSE IF how = "empty" THEN <<Call("readFile", <<f>>, TRUE), Call("generateText", <<f>>, TRUE) @@ ("res" :> "")>>
  ELSE IF how = "write" THEN <<Call("readFile", <<f>>, TRUE), Call("generateText", <<f>>, TRUE),
                              Call("writeFile", <<f>>, FALSE)>>
  ELSE <<Call("readFile", <<f>>, TRUE), Call("generateText", <<f>>, TRUE),
         Call("writeFile", <<f>>, TRUE), Call("add", <<f>>, how = "ok")>>

RECURSIVE ResolvedCalls(_, _)
\* the calls for the first n files of the list, all rewritten and staged
ResolvedCalls(files, n) ==
  IF n = 0 THEN <<>> ELSE ResolvedCalls(files, n - 1) \o FileCalls(files[n], "ok")

ResolverCommitMessage(files) ==
  "Automated merge conflict resolution by LLM for " \o ToString(Len(files)) \o " file(s)"

LLMInitErr == "Unsupported LLM provider"
NotAllResolved == "LLM failed to resolve all conflicts."

resolveConflicts ==
  /\ pc = "resolveConflicts"
  /\ LET files == cur.conflictedFiles
         enter == Append(calls, Call("resolveConflicts", files, TRUE))
     IN \/ \* initializeLLMClient throws
           /\ calls' = Append(enter, Call("initializeLLMClient", <<>>, FALSE))
           /\ cur' = [cur EXCEPT !.usedLLM = TRUE,
                        !.resolveResult = [success |-> FALSE,
                            error |-> "LLM client initialization failed: " \o LLMInitErr]]
           /\ pc' = "abort"
           /\ UNCHANGED wc
        \/ \* the loop breaks at file n + 1
           \E n \in 0..(Len(files) - 1), how \in FileFailures :
             /\ calls' = Append(enter, Call("initializeLLMClient", <<>>, TRUE))
                           \o ResolvedCalls(files, n) \o FileCalls(files[n + 1], how)
             /\ wc' = [wc EXCEPT ![Dir].conflicted = SubSeq(files, n + 1, Len(files))]
             /\ cur' = [cur EXCEPT !.usedLLM = TRUE,
                          !.resolveResult = [success |-> FALSE, error |-> NotAllResolved]]
             /\ pc' = "abort"
        \/ \* every file rewritten and staged, then git.commit
           \E ok \in CallOutcomes("commit") :
             /\ calls' = Append(Append(enter, Call("initializeLLMClient", <<>>, TRUE))
                                  \o ResolvedCalls(files, Len(files)),
                                Call("commit", <<ResolverCommitMessage(files)>>, ok))
             /\ IF ok
                THEN /\ wc' = [wc EXCEPT ![Dir].conflicted = <<>>, ![Dir].merging = FALSE,
                                         ![Dir].head = @ + 1]
                     /\ cur' = [cur EXCEPT !.usedLLM = TRUE, !.resolveResult = [success |-> TRUE]]
                     /\ pc' = "commit"
                ELSE /\ wc' = [wc EXCEPT ![Dir].conflicted = <<>>]
                     /\ cur' = [cur EXCEPT !.usedLLM = TRUE,
                                  !.resolveResult = [success |-> FALSE,
                                      error |-> "Failed to commit changes: " \o GitErr]]
                     /\ pc' = "abort"
  /\ UNCHANGED <<envVars, batchVars, baseDirExists, ret>>

(***************************************************************************)
(* mergeUpstreamChanges, after the resolver                                *)
(***************************************************************************)
CommitMessage_forkBranch(c) == "Automated merge conflict resolution from upstream/" \o c.forkInfo.branch

CommitMessage(c) == "Automated merge conflict resolution from upstream/" \o c.upstreamInfo.branch

\* as commit, but the push follows also when the commit failed
commit_pushAnyway ==
  /\ pc = "commit"
  /\ \E ok \in CallOutcomes("commit") :
       /\ calls' = Append(calls, Call("commit", <<CommitMessage(cur)>>, ok))
       /\ wc' = IF ok /\ wc[Dir].merging
                THEN [wc EXCEPT ![Dir].merging = FALSE, ![Dir].head = @ + 1]
                ELSE wc
       /\ pc' = "pushResolved"
       /\ UNCHANGED <<ret, cur>>
  /\ UNCHANGED <<envVars, batchVars, baseDirExists>>

\* git.commit of the resolution, made by mergeUpstreamChanges
commit ==
  /\ pc = "commit"
  /\ \E ok \in CallOutcomes("commit") :
       /\ calls' = Append(calls, Call("commit", <<CommitMessage(cur)>>, ok))
       /\ IF ok
          THEN /\ wc' = IF wc[Dir].merging
                        THEN [wc EXCEPT ![Dir].merging = FALSE, ![Dir].head = @ + 1]
                        ELSE wc
               /\ pc' = "pushResolved"
               /\ UNCHANGED <<ret, cur>>
          ELSE /\ UNCHANGED wc
               /\ AfterMerge(cur, MergeCaught(cur, GitErr))
  /\ UNCHANGED <<envVars, batchVars, baseDirExists>>

pushResolved ==
  /\ pc = "pushResolved"
  /\ \/ /\ calls' = Append(calls, Call("push", PushArgs(cur), TRUE))
        /\ wc' = [wc EXCEPT ![Dir].pushed = wc[Dir].head]
        /\ AfterMerge(cur, ResolvedMerge(cur))
     \/ \E message \in PushErrs :
          /\ calls' = Append(calls, Call("push", PushArgs(cur), FALSE))
          /\ AfterMerge(cur, MergeCaught(cur, message))
          /\ UNCHANGED wc
  /\ UNCHANGED <<envVars, batchVars, baseDirExists>>

\* as abort, but a failed abort sends the run back to the resolver
abort_retry ==
  /\ pc = "abort"
  /\ \E ok \in CallOutcomes("merge") :
       /\ calls' = Append(calls, Call("merge", <<"--abort">>, ok))
       /\ IF ok
          THEN /\ wc' = [wc EXCEPT ![Dir].merging = FALSE, ![Dir].conflicted = <<>>]
               /\ AfterMerge(cur, UnresolvedMerge(cur))
          ELSE /\ pc' = "resolveConflicts"
               /\ UNCHANGED <<wc, cur, ret>>
  /\ UNCHANGED <<envVars, batchVars, baseDirExists>>

\* resolver failed: git merge --abort
abort ==
  /\ pc = "abort"
  /\ \E ok \in CallOutcomes("merge") :
       /\ calls' = Append(calls, Call("merge", <<"--abort">>, ok))
       /\ IF ok
          THEN /\ wc' = [wc EXCEPT ![Dir].merging = FALSE, ![Dir].conflicted = <<>>]
               /\ AfterMerge(cur, UnresolvedMerge(cur))
          ELSE /\ pc' = "reset"
               /\ UNCHANGED <<wc, cur, ret>>
  /\ UNCHANGED <<envVars, batchVars, baseDirExists>>

\* the revision the fallback resets to
ResetTarget_parent(c) == c.originalHead - 1

ResetTarget(c) == c.originalHead

\* abort failed: git reset --hard originalHead, whose own failure is only logged
reset ==
  /\ pc = "reset"
  /\ \E ok \in CallOutcomes("reset") :
       /\ calls' = Append(calls, Call("reset", <<"--hard", Rev(ResetTarget(cur))>>, ok))
       /\ wc' = IF ok
                THEN [wc EXCEPT ![Dir].merging = FALSE, ![Dir].conflicted = <<>>,
                                ![Dir].head = ResetTarget(cur)]
                ELSE wc
  /\ AfterMerge(cur, UnresolvedMerge(cur))
  /\ UNCHANGED <<envVars, batchVars, baseDirExists>>

(***************************************************************************)
(* syncRepository: the post-merge test gate                                *)
(***************************************************************************)
\* runTests resolves true or false, or rejects
TestResults == {"passed", "failed", "error"}

\* as Tested, but tests that do not pass turn the merge result into a failure
Tested_downgrade(mergeResult, t) ==
  [mergeResult EXCEPT !.success = (t = "passed")] @@ ("testsStatus" :> t)

\* mergeResult.testsStatus = 'passed' | 'failed' | 'error'
Tested(mergeResult, t) == mergeResult @@ ("testsStatus" :> t)

runTests ==
  /\ pc = "runTests"
  /\ \E t \in TestResults :
       /\ calls' = Append(calls, Call("runTests", <<Dir>>, t # "error")
                                   @@ Opt("res", t # "error", t = "passed"))
       /\ cur' = [cur EXCEPT !.mergeResult = Tested(@, t)]
       /\ ret' = Return(OutcomeOf(cur, Tested(cur.mergeResult, t)))
  /\ pc' = "collect"
  /\ UNCHANGED <<envVars, batchVars, wc, baseDirExists>>

(***************************************************************************)
(* validateConfig: the identifiers of the configuration file               *)
(***************************************************************************)
\* fork identifiers a configuration file can hold for the first pair
ForkIdentifiers ==
  {"me/r1:dev", "me/r1:feat/x", "me/r1:x:dev", "m:e/r1:dev", "x-y/z:dev",
   "me/r1", "me/r1:", ":dev", "/r1:dev", "me/:dev", "me/r1/s:dev", "me:dev"}

\* upstream identifiers a configuration file can hold for the first pair
UpstreamIdentifiers == {"up/r1:main", "up/r1"}

\* fork identifiers a configuration file can hold for the second pair
SecondForkIdentifiers == {"me/r2:feat", "x/y-z:dev"}

\* the configuration files: validateConfig and startSync read the same account object
UnvalidatedConfigs ==
  {[accounts |-> [name |-> AccountName, token |-> Token,
                  repos |-> <<[upstream |-> u, fork |-> f],
                              [upstream |-> Pair2.upstream, fork |-> g]>>],
    reposBaseDir |-> BaseDir, email |-> TRUE, sendMailOnFailure |-> FALSE,
    runTestsAfterMerge |-> TRUE] :
     u \in UpstreamIdentifiers, f \in ForkIdentifiers, g \in SecondForkIdentifiers}

\* the string has no occurrence of the character
Lacks(s, ch) == IndexFrom(s, ch, 1) = 0

\* /^[^/]+\/[^/]+:[^:]+$/.test(s)
repoBranchRegexTest(s) ==
  \E i \in 2..Len(s) : \E j \in (i + 2)..(Len(s) - 1) :
    /\ Lacks(SubSeq(s, 1, i - 1), "/")
    /\ SubSeq(s, i, i) = "/"
    /\ Lacks(SubSeq(s, i + 1, j - 1), "/")
    /\ SubSeq(s, j, j) = ":"
    /\ Lacks(SubSeq(s, j + 1, Len(s)), ":")

RECURSIVE FirstInvalid(_, _)
\* the error of the first repository entry, from entry i on, that fails the format test
FirstInvalid(repos, i) ==
  IF i > Len(repos) THEN Undefined
  ELSE IF ~repoBranchRegexTest(repos[i].upstream)
       THEN "Invalid \"upstream\" format: " \o repos[i].upstream \o ". Must be \"owner/repo:branch\""
  ELSE IF ~repoBranchRegexTest(repos[i].fork)
       THEN "Invalid \"fork\" format: " \o repos[i].fork \o ". Must be \"owner/repo:branch\""
  ELSE FirstInvalid(repos, i + 1)

\* the working-copy directories of the pairs of a configuration
DirsOf(c) ==
  {RepoDirOf(c.reposBaseDir, c.accounts.name, parseRepoBranchString(c.accounts.repos[i].fork)) :
     i \in 1..Len(c.accounts.repos)}

\* the program has read a configuration file and nothing is cloned yet
InitUnvalidated ==
  /\ cfg \in UnvalidatedConfigs
  /\ opts = [accountFilter |-> Undefined, repoFilter |-> Undefined]
  /\ client = "Mock"
  /\ wc = [d \in DirsOf(cfg) |-> FreshCopy]
  /\ baseDirExists = FALSE
  /\ pc = "config"
  /\ reposToProcess = <<>>
  /\ idx = 0
  /\ results = NoResults
  /\ final = [kind |-> "pending"]
  /\ cur = CurIdle
  /\ calls = <<>>
  /\ ret = NoRet
  /\ reports = <<>>

\* initializeConfig: validateConfig throws on the first malformed identifier
\* and the program exits; otherwise the configuration goes to startSync
validateConfig ==
  /\ pc = "config"
  /\ LET error == FirstInvalid(cfg.accounts.repos, 1)
     IN IF error = Undefined
        THEN pc' = "idle" /\ UNCHANGED final
        ELSE pc' = "exit" /\ final' = [kind |-> "rejected", message |-> error]
  /\ UNCHANGED <<cfg, opts, client, wc, baseDirExists, reposToProcess, idx, results,
                 cur, calls, ret, reports>>

(***************************************************************************)
(* Specification                                                           *)
(***************************************************************************)
Next ==
  \/ startSync
  \/ syncRepository
  \/ checkIsRepo
  \/ clone
  \/ updateOrigin
  \/ getRemotes
  \/ addRemote
  \/ updateUpstream
  \/ fetchAll
  \/ initCheckout
  \/ setTracking
  \/ driftCheckout
  \/ driftFetch
  \/ revList
  \/ mergeCheckout
  \/ revParse
  \/ merge
  \/ push
  \/ status
  \/ abortNoFiles
  \/ resolveConflicts
  \/ commit
  \/ pushResolved
  \/ abort
  \/ reset
  \/ runTests
  \/ Collect
  \/ Report

Spec == Init /\ [][Next]_vars

\* every awaited collaborator call returns or fails, so the controller
\* always takes its next step
\* the program started with the tests enabled, on either client and any disk,
\* with a repository filter that selects one pair
InitLive ==
  /\ Init
  /\ cfg.runTestsAfterMerge /\ cfg.email /\ ~cfg.sendMailOnFailure
  /\ opts \in {[accountFilter |-> AccountName, repoFilter |-> Pair1.fork],
               [accountFilter |-> AccountName, repoFilter |-> Pair2.upstream]}

SpecLive == InitLive /\ [][Next]_vars /\ WF_vars(Next)

(***************************************************************************)
(* utils/llm-client: initializeLLMClient and generateText                  *)
(***************************************************************************)
\* a || b on a number
OrElse(a, b) == IF a # 0 THEN a ELSE b

\* the llm sections of the configuration: maxRetries set or left out
LLMConfigs ==
  {[provider |-> pr, model |-> "gpt-4", apiKey |-> "key"] : pr \in {"openai", "OpenAI", "other"}}
  \cup {[provider |-> "openai", model |-> "gpt-4", apiKey |-> "key", maxRetries |-> m] :
          m \in 0..MaxConfiguredRetries}

\* String.prototype.toLowerCase on the provider names of LLMConfigs
ToLowerCase(s) == IF s = "OpenAI" THEN "openai" ELSE s

\* what a chat completion can deliver: content, blank content, no content, or an error
Completions == {"resolved text\n", "  \n", "", "error"}
ApiErr == "429 rate limit"
EmptyResponseErr == "LLM returned an empty or invalid response."

\* llmConfig = { maxRetries: 3, ...config }
llmConfigOf(config) ==
  IF "maxRetries" \in DOMAIN config THEN config ELSE config @@ ("maxRetries" :> 3)

\* a module that has loaded the llm section and is about to initialize the client
InitLLM ==
  /\ cfg \in LLMConfigs
  /\ opts = [accountFilter |-> Undefined, repoFilter |-> Undefined]
  /\ client = "Mock"
  /\ wc = [d \in Dirs |-> FreshCopy]
  /\ baseDirExists = FALSE
  /\ pc = "initializeLLMClient"
  /\ reposToProcess = <<>>
  /\ idx = 0
  /\ results = NoResults
  /\ final = [kind |-> "pending"]
  /\ cur = [llmConfig |-> Undefined, retries |-> 0]
  /\ calls = <<>>
  /\ ret = NoRet
  /\ reports = <<>>

llmUnchanged == <<cfg, opts, client, wc, baseDirExists, reposToProcess, idx, results, final, reports>>

initializeLLMClient ==
  /\ pc = "initializeLLMClient"
  /\ IF ToLowerCase(llmConfigOf(cfg).provider) = "openai"
     THEN /\ cur' = [cur EXCEPT !.llmConfig = llmConfigOf(cfg)]
          /\ pc' = "generateText"
          /\ UNCHANGED ret
     ELSE /\ ret' = Throw("Unsupported LLM provider: " \o cfg.provider
                            \o ". Currently, only 'openai' is supported.")
          /\ pc' = "llmThrown"
          /\ UNCHANGED cur
  /\ UNCHANGED <<llmUnchanged, calls>>

\* llmConfig.maxRetries || 3
RetryLimit(llmConfig) == OrElse(llmConfig.maxRetries, 3)

\* let retries = 0; while (retries <= limit): without an iteration the function returns undefined
generateText ==
  /\ pc = "generateText"
  /\ cur' = [cur EXCEPT !.retries = 0]
  /\ IF 0 <= RetryLimit(cur.llmConfig)
     THEN pc' = "create" /\ UNCHANGED ret
     ELSE pc' = "llmReturned" /\ ret' = Return(Undefined)
  /\ UNCHANGED <<llmUnchanged, calls>>

\* one iteration: openai.chat.completions.create, then return the trimmed
\* content or count the failure and throw once the limit is passed
createCompletion ==
  /\ pc = "create"
  /\ \E c \in Completions :
       LET textResponse == IF c = "error" THEN Undefined ELSE Trim(c)
           failed == c = "error" \/ textResponse = ""
           message == IF c = "error" THEN ApiErr ELSE EmptyResponseErr
       IN /\ calls' = Append(calls, Call("create", <<cur.llmConfig.model>>, c # "error")
                                     @@ Opt("res", c # "error", c))
          /\ IF ~failed
             THEN /\ ret' = Return(textResponse)
                  /\ pc' = "llmReturned"
                  /\ UNCHANGED cur
             ELSE /\ cur' = [cur EXCEPT !.retries = @ + 1]
                  /\ IF cur.retries + 1 > RetryLimit(cur.llmConfig)
                     THEN /\ ret' = Throw("Failed to generate text after "
                                           \o ToString(RetryLimit(cur.llmConfig))
                                           \o " retries: " \o message)
                          /\ pc' = "llmThrown"
                     ELSE /\ pc' = "backoff"
                          /\ UNCHANGED ret
  /\ UNCHANGED llmUnchanged

\* await setTimeout(1000 * retries), then the loop test
backoff ==
  /\ pc = "backoff"
  /\ IF cur.retries <= RetryLimit(cur.llmConfig)
     THEN pc' = "create" /\ UNCHANGED ret
     ELSE pc' = "llmReturned" /\ ret' = Return(Undefined)
  /\ UNCHANGED <<llmUnchanged, calls, cur>>

NextLLM == initializeLLMClient \/ generateText \/ createCompletion \/ backoff

SpecLLM == InitLLM /\ [][NextLLM]_vars

(***************************************************************************)
(* scheduler: setupScheduler and the cron task                             *)
(***************************************************************************)
\* cron expressions a configuration can hold (validateConfig supplies the first)
Schedules == {"0 4 * * *", "every day"}

\* cron.validate on the expressions of Schedules
CronValid(expr) == expr = "0 4 * * *"

ScheduledConfigs == {c @@ ("schedule" :> expr) : c \in Configs, expr \in Schedules}

\* names in scope of the task's callback: the parameter of setupScheduler and
\* the bindings of the module
ScopeOfTask == {"config", "cron", "logger", "startSync", "sendDailyReport", "activeTasks"}

ReferenceErr(name) == name \o " is not defined"

\* the program was started without --run-once: index.js is about to call
\* setupScheduler(config, { accountFilter, repoFilter })
InitScheduled ==
  /\ cfg \in ScheduledConfigs
  /\ opts \in Options
  /\ client \in {"GitClient", "Mock"}
  /\ wc \in Worlds
  /\ baseDirExists = (\E d \in Dirs : wc[d].exists)
  /\ pc = "setupScheduler"
  /\ reposToProcess = <<>>
  /\ idx = 0
  /\ results = NoResults
  /\ final = [kind |-> "pending"]
  /\ cur = CurIdle
  /\ calls = <<>>
  /\ ret = NoRet
  /\ reports = <<>>

\* setupScheduler(config): the second argument of the caller is dropped
setupScheduler ==
  /\ pc = "setupScheduler"
  /\ IF CronValid(cfg.schedule)
     THEN /\ calls' = <<Call("cron.schedule", <<cfg.schedule>>, TRUE)>>
          /\ pc' = "scheduled"
          /\ UNCHANGED final
     ELSE /\ final' = [kind |-> "rejected",
                       message |-> "Invalid cron schedule expression: " \o cfg.schedule]
          /\ pc' = "exit"
          /\ UNCHANGED calls
  /\ UNCHANGED <<cfg, opts, client, wc, baseDirExists, reposToProcess, idx, results,
                 cur, ret, reports>>

\* one firing of the sync task: the arguments of startSync(config, options)
\* are evaluated inside the try; a name that is not in scope throws there,
\* before the call, and the catch logs the error
fireSyncTask ==
  /\ pc = "scheduled"
  /\ Cardinality({i \in 1..Len(calls) : calls[i].op = "logger.info"}) < MaxFirings
  /\ LET started == Append(calls, Call("logger.info", <<"Starting scheduled repository sync task">>, TRUE))
     IN IF {"config", "options"} \subseteq ScopeOfTask
        THEN /\ calls' = Append(started, Call("startSync", <<cfg, opts>>, TRUE))
             /\ pc' = "idle"
        ELSE /\ calls' = Append(started, Call("logger.error",
                              <<"Error in scheduled sync task:", ReferenceErr("options")>>, TRUE))
             /\ pc' = "scheduled"
  /\ UNCHANGED <<cfg, opts, client, wc, baseDirExists, reposToProcess, idx, results,
                 final, cur, ret, reports>>

NextScheduled == setupScheduler \/ fireSyncTask

SpecScheduled == InitScheduled /\ [][NextScheduled]_vars

(***************************************************************************)
(* Consecutive runs on the same disk                                       *)
(***************************************************************************)
\* the program is started again (run-once) after the previous batch returned:
\* the working copies stay as that batch left them
nextRun ==
  /\ pc = "finished"
  /\ \A d \in DOMAIN wc : wc[d].head < MaxCommits
  /\ pc' = "idle"
  /\ reposToProcess' = <<>>
  /\ idx' = 0
  /\ results' = NoResults
  /\ final' = [kind |-> "pending"]
  /\ reports' = <<>>
  /\ UNCHANGED <<cfg, opts, client, wc, baseDirExists, cur, calls, ret>>

NextRuns == Next \/ nextRun

\* runs of one selected pair, one after another
SpecRuns == InitLive /\ [][NextRuns]_vars

\* the program from the configuration file on
NextFromFile == validateConfig \/ Next

SpecFromFile == InitUnvalidated /\ [][NextFromFile]_vars

(***************************************************************************)
(* Reading the call log of the current pair                                *)
(***************************************************************************)
Idx(op) == {i \in 1..Len(calls) : calls[i].op = op}
Invoked(op) == Idx(op) # {}
MergeIdx == {i \in Idx("merge") : calls[i].args # <<"--abort">>}
AbortIdx == {i \in Idx("merge") : calls[i].args = <<"--abort">>}
PushIdx == Idx("push")
\* the commit mergeUpstreamChanges makes itself, told by its message
EngineCommitIdx ==
  {i \in Idx("commit") :
     calls[i].args = <<"Automated merge conflict resolution from upstream/" \o upstreamBranch>>}

Returned == pc = "collect" /\ ret.kind = "return"
Flag(o, f) == f \in DOMAIN o /\ o[f]
Text(o, f) == IF f \in DOMAIN o THEN o[f] ELSE Undefined

\* rev-list printed no commit
NoDrift == \E i \in Idx("revList") : calls[i].ok /\ calls[i].res \in {"", "\n"}
CleanMerged == \E i \in MergeIdx : calls[i].ok
ResolverSucceeded == Invoked("resolveConflicts") /\ pc # "resolveConflicts" /\ cur.resolveResult.success
ResolverFailed == Invoked("resolveConflicts") /\ pc # "resolveConflicts" /\ ~cur.resolveResult.success
AbortFailed == \E a \in AbortIdx : ~calls[a].ok
ResetFailed == \E r \in Idx("reset") : ~calls[r].ok

(***************************************************************************)
(* Properties                                                              *)
(***************************************************************************)

\* C1: once the drift check's revision list is empty, merge, the resolver and
\* push are not invoked for the pair and the engine returns success=true,
\* status=skipped.
C1_NoDriftSkipped ==
  NoDrift =>
    /\ MergeIdx = {} /\ AbortIdx = {}
    /\ ~Invoked("resolveConflicts")
    /\ PushIdx = {}
    /\ pc = "collect"
    /\ ret.kind = "return"
    /\ ret.value.status = "skipped"
    /\ ret.value.success = TRUE

C1_Witness ==
  /\ pc = "collect"
  /\ \E i \in Idx("revList") : calls[i].ok /\ calls[i].res = "\n"
  /\ ret.kind = "return" /\ ret.value.status = "skipped"

C5_ResetToAnchor ==
  (ResolverFailed /\ pc = "collect") =>
    /\ (Idx("reset") # {}) <=> AbortFailed
    /\ Cardinality(Idx("reset")) <= 1
    /\ \A r \in Idx("reset") :
         \E p \in Idx("revParse") :
           /\ calls[p].ok
           /\ \A m \in MergeIdx : p < m
           /\ calls[r].args = <<"--hard", calls[p].res>>

C5_Witness ==
  /\ pc = "collect" /\ ResolverFailed /\ AbortFailed
  /\ \E r \in Idx("reset") : calls[r].ok /\ calls[r].args = <<"--hard", "c1">>

\* the outcome of the resolver-failure path when the rollback succeeded
RolledBackOutcome ==
  [repository |-> cur.forkInfo.repoFullName, account |-> cfg.accounts.name,
   success |-> FALSE, status |-> "error", hadConflicts |-> TRUE, usedLLM |-> TRUE,
   message |-> "Merge of upstream/" \o upstreamBranch \o " into " \o forkBranch
               \o " aborted due to unresolvable conflicts.",
   error |-> "Failed to resolve conflicts for " \o forkBranch \o " from upstream/"
             \o upstreamBranch \o ": " \o cur.resolveResult.error]

\* C6: when the resolver fails and both abortMerge and hardReset fail, the
\* returned outcome differs from the outcome of a successful rollback.
C6_RollbackFailureDistinct ==
  (pc = "collect" /\ ResolverFailed /\ AbortFailed /\ ResetFailed) =>
    (ret.kind = "return" => ret.value # RolledBackOutcome)

\* C7: a non-success outcome returned after a merge was started leaves no
\* merge in progress in the working copy, provided no abort failed without a
\* successful reset after it.
C7_NoDanglingMerge ==
  (/\ Returned /\ ret.value.success = FALSE
   /\ MergeIdx # {}
   /\ AbortFailed => \E r \in Idx("reset") : calls[r].ok) =>
    ~wc[Dir].merging

\* a pair's outcome names the pair: the fork's owner/repo, or the fork string
\* when the outcome was made from a caught exception
NamesPair(o, repoConfig) ==
  o.repository \in {repoConfig.fork, parseRepoBranchString(repoConfig.fork).repoFullName}

InitFailureText == "Failed to initialize repository"

\* initializeRepository caught an error: the client was constructed and the
\* last call of the pair failed before the tracking branch was bound
InitThrew ==
  /\ pc = "collect"
  /\ Len(calls) >= 2
  /\ calls[1].op = "GitClient" /\ calls[1].ok
  /\ ~Invoked("branch")
  /\ ~calls[Len(calls)].ok

\* C8: every selected pair gets exactly one outcome, in configuration order,
\* whatever happened to the pairs before it; a pair whose initialization
\* throws gets the initialization-failure outcome, and when that happens to
\* both of two pairs the summary has failedRepos=2, success=false and two
\* outcomes of status=error.
C8_Isolation ==
  /\ pc \notin {"idle", "finished"} => Len(results.details) = idx - 1
  /\ \A i \in 1..Len(results.details) : NamesPair(results.details[i], reposToProcess[i])
  /\ InitThrew => /\ ret.kind = "return"
                  /\ ret.value.status = "error"
                  /\ ret.value.error = InitFailureText
  /\ (pc = "finished" /\ "details" \in DOMAIN final.value) =>
       /\ final.value = results
       /\ Len(results.details) = Len(reposToProcess)
       /\ (/\ Len(results.details) = 2
           /\ \A i \in 1..2 : Text(results.details[i], "error") = InitFailureText) =>
            /\ results.failedRepos = 2
            /\ results.success = FALSE
            /\ \A i \in 1..2 : results.details[i].status = "error"

C8_Witness ==
  /\ pc = "finished"
  /\ Len(results.details) = 2
  /\ \A i \in 1..2 : Text(results.details[i], "error") = InitFailureText
  /\ results.failedRepos = 2

CountWhere(ds, P(_)) == Cardinality({i \in 1..Len(ds) : P(ds[i])})
IsSynced(o) == o.status = "synced"
IsSkipped(o) == o.status = "skipped"
IsFailure(o) == ~o.success

CountsAgree(res) ==
  /\ res.syncedRepos = CountWhere(res.details, IsSynced)
  /\ res.skippedRepos = CountWhere(res.details, IsSkipped)
  /\ res.failedRepos = CountWhere(res.details, IsFailure)
  /\ res.success = (res.failedRepos = 0)

\* pair A was skipped and pair B's conflicting merge was resolved by the resolver
ScenarioSkipThenResolved ==
  /\ pc = "collect" /\ idx = 2 /\ Len(reposToProcess) = 2
  /\ results.details[1].status = "skipped"
  /\ ResolverSucceeded

ScenarioResult(res) ==
  res.syncedRepos = 1 /\ res.skippedRepos = 1 /\ res.failedRepos = 0 /\ res.success = TRUE

C10_FailuresBecomeOutcomes ==
  /\ [][(pc = "collect" /\ ret.kind = "throw") =>
          /\ pc' = "loop" /\ idx' = idx + 1
          /\ Len(results'.details) = Len(results.details) + 1
          /\ LET o == results'.details[Len(results'.details)]
             IN o.status = "error" /\ o.success = FALSE /\ o.error = ret.message
          /\ results'.failedRepos = results.failedRepos + 1]_vars
  /\ [](\A i \in 1..Len(results.details) :
          ~results.details[i].success => results.details[i].status = "error")
  /\ [](pc = "finished" =>
          /\ final.kind = "resolved"
          /\ ~AccountMismatch(opts.accountFilter, cfg.accounts) =>
               Len(final.value.details) = Len(reposToProcess))

C10_Witness ==
  /\ pc = "finished"
  /\ Len(results.details) = 2
  /\ Text(results.details[1], "error") = "EACCES: permission denied, mkdir"
  /\ results.details[2].status = "synced"

\* the calls initializeRepository makes inside its try block
InitSteps == {"checkIsRepo", "clone", "updateRemoteUrl", "getRemotes", "addRemote", "fetch", "checkout"}

\* call i is a step of initializeRepository that failed
FailedInitStep(i) ==
  /\ ~calls[i].ok
  /\ calls[i].op \in InitSteps
  /\ \A b \in Idx("branch") : i < b

SelectorNamesOtherAccount ==
  /\ opts.accountFilter \notin {Undefined, ""}
  /\ opts.accountFilter # cfg.accounts.name

\* C12: when the account-name selector differs from the account's name,
\* startSync resolves at once with success=false and the message 'Account
\* name does not match filter': no pair is selected, no client is created, no
\* engine run starts, no working copy changes and the Reporter is not invoked.
C12_AccountMismatchShortCircuits ==
  SelectorNamesOtherAccount =>
    /\ pc \in {"idle", "finished"}
    /\ reposToProcess = <<>> /\ idx = 0
    /\ calls = <<>> /\ ret = NoRet
    /\ reports = <<>>
    /\ wc \in Worlds
    /\ baseDirExists = (\E d \in Dirs : wc[d].exists)
    /\ pc = "finished" =>
         final = [kind |-> "resolved",
                  value |-> [success |-> FALSE, message |-> "Account name does not match filter"]]

C12_Witness ==
  /\ SelectorNamesOtherAccount
  /\ pc = "finished"
  /\ final.value.success = FALSE
  /\ final.value.message = "Account name does not match filter"
  /\ reports = <<>>

\* a repository selector is given
HasRepoSelector == opts.repoFilter \notin {Undefined, ""}

\* the selector is the pair's fork string or its upstream string
SelectorIs(p) == p.fork = opts.repoFilter \/ p.upstream = opts.repoFilter

EmptySummary ==
  [success |-> TRUE, syncedRepos |-> 0, failedRepos |-> 0, skippedRepos |-> 0, details |-> <<>>]

\* C13: when the repository selector matches no configured pair, no engine
\* run starts and startSync resolves with the normal summary success=true,
\* all three counts 0 and no outcomes, which is not the account-mismatch
\* result.
C13_EmptySelectionSoftNoOp ==
  (/\ ~SelectorNamesOtherAccount
   /\ HasRepoSelector
   /\ \A i \in 1..Len(cfg.accounts.repos) : ~SelectorIs(cfg.accounts.repos[i])) =>
    /\ pc \in {"idle", "loop", "finished"}
    /\ calls = <<>> /\ ret = NoRet
    /\ wc \in Worlds
    /\ pc # "idle" => reposToProcess = <<>> /\ results = EmptySummary
    /\ pc = "finished" =>
         /\ final = [kind |-> "resolved", value |-> EmptySummary]
         /\ final.value # [success |-> FALSE, message |-> "Account name does not match filter"]

C13_Witness ==
  /\ pc = "finished"
  /\ opts.repoFilter = "me/r1"
  /\ final.value = EmptySummary

\* the pairs the selector picks, in configuration order
ExpectedSelection ==
  IF HasRepoSelector
  THEN (IF SelectorIs(Pair1) THEN <<Pair1>> ELSE <<>>) \o (IF SelectorIs(Pair2) THEN <<Pair2>> ELSE <<>>)
  ELSE <<Pair1, Pair2>>

\* the engine is running for a pair
EngineRunning == pc \notin {"config", "exit", "idle", "loop", "collect", "finished"}

\* C14: the engine runs once for each configured pair whose fork string or
\* upstream string equals the repository selector, in configuration order,
\* and for no other pair; without a selector it runs once for every
\* configured pair.
C14_SelectorPicksExactPairs ==
  (pc # "idle" /\ ~SelectorNamesOtherAccount) =>
    /\ reposToProcess = ExpectedSelection
    /\ (EngineRunning \/ pc = "collect") =>
         /\ idx \in 1..Len(ExpectedSelection)
         /\ Len(results.details) = idx - 1
         /\ cur.forkInfo.repoFullName = First(Split(ExpectedSelection[idx].fork, ":"))
         /\ cur.upstreamInfo.repoFullName = First(Split(ExpectedSelection[idx].upstream, ":"))
    /\ pc = "finished" =>
         /\ Len(final.value.details) = Len(ExpectedSelection)
         /\ \A i \in 1..Len(ExpectedSelection) :
              NamesPair(final.value.details[i], ExpectedSelection[i])

C14_Witness ==
  /\ pc = "finished"
  /\ opts.repoFilter = "up/r2:stable"
  /\ Len(final.value.details) = 1
  /\ final.value.details[1].repository = "me/r2"
  /\ final.value.details[1].status = "synced"

\* what testsStatus must say about a call of runTests
StatusOfTestCall(call) == IF ~call.ok THEN "error" ELSE IF call.res THEN "passed" ELSE "failed"

\* C15: the test gate only adds testsStatus (passed, failed or error, as the
\* Test Runner resolved or rejected): the outcome keeps success=true,
\* status=synced and the hadConflicts, usedLLM and message of the merge
\* result, and the pair counts as synced and not as failed.
C15_TestsOnlyAnnotate ==
  /\ [][(pc = "runTests" /\ pc' = "collect") =>
          /\ ret'.kind = "return"
          /\ ret'.value.success = TRUE /\ cur.mergeResult.success = TRUE
          /\ ret'.value.status = "synced"
          /\ ret'.value.hadConflicts = cur.mergeResult.hadConflicts
          /\ ret'.value.hadConflicts = cur.hadConflicts
          /\ ret'.value.usedLLM = cur.mergeResult.usedLLM
          /\ ret'.value.usedLLM = cur.usedLLM
          /\ ret'.value.message = cur.mergeResult.message
          /\ ret'.value.testsStatus = StatusOfTestCall(calls'[Len(calls')])
          /\ wc' = wc]_vars
  /\ [][(pc = "collect" /\ Invoked("runTests")) =>
          /\ results'.syncedRepos = results.syncedRepos + 1
          /\ results'.failedRepos = results.failedRepos
          /\ results'.skippedRepos = results.skippedRepos
          /\ results'.success = results.success]_vars

C15_Witness ==
  /\ pc = "finished"
  /\ Len(results.details) = 2
  /\ Text(results.details[1], "testsStatus") = "failed"
  /\ Text(results.details[2], "testsStatus") = "error"
  /\ \A i \in 1..2 : results.details[i].status = "synced" /\ results.details[i].success
  /\ results.syncedRepos = 2 /\ results.failedRepos = 0 /\ results.success

\* C16: runTests is invoked at most once for a pair, only with
\* runTestsAfterMerge set and directly after a push that succeeded; it is the
\* last call for the pair (no abort, reset, commit or push after it) and it is
\* never invoked on a run that ends skipped, in error or with an exception.
C16_TestsOnlyAfterPush ==
  /\ Cardinality(Idx("runTests")) <= 1
  /\ \A t \in Idx("runTests") :
       /\ cfg.runTestsAfterMerge
       /\ t = Len(calls)
       /\ t - 1 \in PushIdx /\ calls[t - 1].ok
       /\ \A i \in AbortIdx \cup Idx("reset") \cup Idx("commit") \cup PushIdx : i < t
       /\ pc = "collect"
       /\ ret.kind = "return" /\ ret.value.success /\ ret.value.status = "synced"
  /\ (pc = "collect" /\ (ret.kind = "throw" \/ ret.value.status # "synced")) => ~Invoked("runTests")
  /\ pc = "runTests" => /\ cfg.runTestsAfterMerge
                        /\ Len(calls) \in PushIdx /\ calls[Len(calls)].ok

C16_Witness ==
  /\ pc = "collect"
  /\ Invoked("runTests")
  /\ EngineCommitIdx # {}
  /\ ret.kind = "return" /\ Text(ret.value, "testsStatus") = "passed"

\* C17: sendSyncReport is invoked only once the loop over the pairs is over,
\* at most once, with the summary, and exactly when email is configured and
\* (syncedRepos > 0 or failedRepos > 0 or sendMailOnFailure); whether it
\* resolves or rejects, startSync returns the summary as the loop left it.
C17_ReportWhenDue ==
  /\ [](Len(reports) <= 1)
  /\ [](pc # "finished" => reports = <<>>)
  /\ []((pc = "finished" /\ ~SelectorNamesOtherAccount) =>
          /\ (Len(reports) = 1) <=>
               (cfg.email /\ (\/ final.value.syncedRepos > 0
                              \/ final.value.failedRepos > 0
                              \/ cfg.sendMailOnFailure))
          /\ \A i \in 1..Len(reports) : reports[i].summary = final.value)
  /\ [][(pc = "loop" /\ pc' = "finished") =>
          /\ idx > Len(reposToProcess)
          /\ Len(results.details) = Len(reposToProcess)
          /\ results' = results
          /\ final' = [kind |-> "resolved", value |-> results]]_vars

C17_Witness ==
  /\ pc = "finished"
  /\ Len(reports) = 1 /\ ~reports[1].ok
  /\ cfg.sendMailOnFailure
  /\ final.value.skippedRepos = 2 /\ final.value.syncedRepos = 0 /\ final.value.failedRepos = 0
  /\ final.value.success

\* success and status of an outcome agree
WellFormedOutcome(o) ==
  /\ o.status \in {"synced", "skipped", "error"}
  /\ o.status = "skipped" => o.success = TRUE
  /\ o.status = "error" => o.success = FALSE
  /\ o.success = TRUE => o.status \in {"synced", "skipped"}

\* C18: every outcome has status synced, skipped or error; skipped comes with
\* success=true and with no merge attempted for the pair, error comes with
\* success=false, and success=true comes with synced or skipped.
C18_OutcomeWellFormed ==
  /\ Returned =>
       /\ WellFormedOutcome(ret.value)
       /\ ret.value.status = "skipped" =>
            /\ MergeIdx = {} /\ AbortIdx = {}
            /\ ~Invoked("revParse") /\ ~Invoked("status") /\ PushIdx = {}
  /\ \A i \in 1..Len(results.details) : WellFormedOutcome(results.details[i])
  /\ (pc = "finished" /\ "details" \in DOMAIN final.value) =>
       \A i \in 1..Len(final.value.details) : WellFormedOutcome(final.value.details[i])

C18_Witness ==
  /\ pc = "collect" /\ idx = 2
  /\ results.details[1].status = "skipped" /\ results.details[1].success
  /\ Returned
  /\ ret.value.status = "error" /\ ~ret.value.success
  /\ MergeIdx # {}

\* C19: an outcome with hadConflicts=true belongs to a run whose merge was
\* attempted and failed, before any call of the resolver; a run whose merge
\* succeeded or was never attempted has no outcome with hadConflicts=true.
C19_HadConflictsMeansMergeConflict ==
  (Returned /\ Flag(ret.value, "hadConflicts")) =>
    /\ MergeIdx # {}
    /\ \A m \in MergeIdx : ~calls[m].ok /\ \A r \in Idx("resolveConflicts") : m < r

\* the status query answered with an empty list of conflicted files
EmptyStatus == \E i \in Idx("status") : calls[i].ok /\ calls[i].res = <<>>

MergeFailurePrefix == "Failed to merge changes into " \o forkBranch \o " from upstream/" \o upstreamBranch \o ": "

NotConflictText(message) ==
  ~Includes(message, "CONFLICT") /\ ~Includes(message, "failed to merge")

\* the last call made is a git merge (not an abort) that failed
MergeJustFailed(log) ==
  /\ Len(log) >= 1
  /\ log[Len(log)].op = "merge" /\ log[Len(log)].args # <<"--abort">>
  /\ ~log[Len(log)].ok

\* the message the engine holds, or reports, once it has caught a failure of merge or push
CaughtMessage(position, locals, completion) ==
  IF position = "status" THEN locals.mergeError
  ELSE SubSeq(completion.value.error, Len(MergeFailurePrefix) + 1, Len(completion.value.error))

OpsIn(log, ops) == {i \in 1..Len(log) : log[i].op \in ops}

\* C21: when merge fails with a message that does not indicate a conflict,
\* the run ends there: merge was invoked once, there is no status query,
\* resolver call, commit, push, abort or reset, and the outcome is
\* status=error, success=false, hadConflicts=false, usedLLM=false carrying the
\* message.
C21_OtherMergeFailureIsFinal ==
  [][(/\ pc = "merge"
      /\ MergeJustFailed(calls')
      /\ NotConflictText(CaughtMessage(pc', cur', ret'))) =>
        /\ pc' = "collect"
        /\ ret'.kind = "return"
        /\ ret'.value.status = "error" /\ ret'.value.success = FALSE
        /\ ret'.value.hadConflicts = FALSE /\ ret'.value.usedLLM = FALSE
        /\ Cardinality(OpsIn(calls', {"merge"})) = 1
        /\ OpsIn(calls', {"status", "resolveConflicts", "commit", "push", "reset", "runTests"}) = {}
        /\ wc' = wc]_vars

C21_Witness ==
  /\ pc = "collect"
  /\ MergeJustFailed(calls)
  /\ Cardinality(MergeIdx) = 1
  /\ ret.kind = "return"
  /\ ret.value.error = MergeFailurePrefix \o "fatal: refusing to merge unrelated histories"
  /\ ret.value.hadConflicts = FALSE

\* call i is a step of checkForUpstreamChanges that failed
FailedDriftStep(i) ==
  /\ ~calls[i].ok
  /\ calls[i].op \in {"checkout", "fetch", "revList"}
  /\ \E b \in Idx("branch") : b < i
  /\ \A r \in Idx("revList") : r >= i

\* C22: when a step of the drift check (checkout, fetch of upstream, revision
\* list) fails, nothing more is called for the pair (no retry, no merge) and
\* the outcome is success=false, status=error with the failure's message,
\* which is not the initialization text.
C22_DriftFailureIsFinal ==
  \A i \in 1..Len(calls) :
    FailedDriftStep(i) =>
      /\ i = Len(calls)
      /\ Cardinality({j \in 1..Len(calls) : \E b \in Idx("branch") : b < j /\ calls[j].op = calls[i].op}) = 1
      /\ MergeIdx = {} /\ ~Invoked("revParse") /\ PushIdx = {}
      /\ pc = "collect"
      /\ ret.kind = "return"
      /\ ret.value.success = FALSE /\ ret.value.status = "error"
      /\ ret.value.error = "fatal: unable to access remote"
      /\ ret.value.error # "Failed to initialize repository"

C22_Witness ==
  /\ pc = "collect"
  /\ Len(calls) >= 1
  /\ calls[Len(calls)].op = "fetch" /\ calls[Len(calls)].args = <<"upstream">>
  /\ FailedDriftStep(Len(calls))
  /\ ret.kind = "return" /\ ret.value.error = "fatal: unable to access remote"

\* every call made on the Repository Client that the class implements succeeded
GitCommandsSucceeded ==
  \A i \in 1..Len(calls) : calls[i].op \in GitClientMethods => calls[i].ok

\* C23: with class GitClient as the Repository Client, a pair whose working
\* copy exists is not cloned, its origin URL is refreshed to the URL with the
\* token, and when every git command succeeds the run reaches the drift
\* check.
C23_ExistingCopyReachesDriftCheck ==
  (/\ client = "GitClient"
   /\ pc = "collect"
   /\ Invoked("checkIsRepo")
   /\ wc[Dir].exists /\ ~Invoked("clone")
   /\ GitCommandsSucceeded) =>
    /\ \E i \in Idx("updateRemoteUrl") :
         /\ calls[i].ok
         /\ calls[i].args = <<"origin", "https://" \o cfg.accounts.token \o "@github.com/"
                                         \o cur.forkInfo.repoFullName \o ".git">>
    /\ Invoked("revList")
    /\ ret.kind = "return" => Text(ret.value, "error") # "Failed to initialize repository"

\* the URL the upstream remote of the current pair has to point at
UpstreamUrlOfPair == "https://github.com/" \o cur.upstreamInfo.repoFullName \o ".git"

\* this step appends one call, of operation op
Appends(op) ==
  /\ Len(calls') = Len(calls) + 1
  /\ calls'[Len(calls')].op = op

\* C24: once initializeRepository has succeeded the upstream remote of the
\* working copy is https://github.com/<upstream owner/repo>.git; addRemote is
\* invoked only when the remote is absent, updateRemoteUrl for upstream only
\* when it is present with another URL, and neither when it matches; after a
\* clone (from the URL with the token) come getRemotes, addRemote, fetch of
\* all remotes and checkout of the fork branch, in that order.
C24_UpstreamRemoteEnsured ==
  /\ [](Invoked("branch") => wc[Dir].upstreamUrl = UpstreamUrlOfPair)
  /\ [][Appends("addRemote") =>
          /\ wc[Dir].upstreamUrl = Undefined
          /\ calls'[Len(calls')].args = <<"upstream", UpstreamUrlOfPair>>]_vars
  /\ [][(Appends("updateRemoteUrl") /\ calls'[Len(calls')].args[1] = "upstream") =>
          /\ wc[Dir].upstreamUrl \notin {Undefined, UpstreamUrlOfPair}
          /\ calls'[Len(calls')].args = <<"upstream", UpstreamUrlOfPair>>]_vars
  /\ [][(Appends("fetch") /\ calls'[Len(calls')].args = <<"--all">>) =>
          wc[Dir].upstreamUrl = UpstreamUrlOfPair]_vars
  /\ [](\A c \in Idx("clone") :
          (calls[c].ok /\ Invoked("branch")) =>
            /\ calls[c].args = <<"https://" \o cfg.accounts.token \o "@github.com/"
                                   \o cur.forkInfo.repoFullName \o ".git">>
            /\ calls[c + 1].op = "getRemotes"
            /\ calls[c + 2].op = "addRemote"
            /\ calls[c + 3].op = "fetch" /\ calls[c + 3].args = <<"--all">>
            /\ calls[c + 4].op = "checkout" /\ calls[c + 4].args = <<cur.forkInfo.branch>>
            /\ calls[c + 5].op = "branch")

C24_Witness ==
  /\ Invoked("branch")
  /\ \E i \in Idx("updateRemoteUrl") :
       calls[i].ok /\ calls[i].args = <<"upstream", "https://github.com/up/r1.git">>
  /\ wc[Dir].upstreamUrl = "https://github.com/up/r1.git"

\* C25: whether or not binding the fork branch to origin/<forkBranch>
\* succeeds, initialization succeeds: the step changes nothing but the call
\* log, the next call is the checkout of the drift check, and the pair does
\* not end with the initialization failure.
C25_TrackingFailureNotFatal ==
  /\ [][Appends("branch") =>
          /\ calls'[Len(calls')].args = <<"--set-upstream-to", "origin/" \o cur.forkInfo.branch>>
          /\ pc' = "driftCheckout"
          /\ ret' = NoRet
          /\ wc' = wc /\ cur' = cur /\ results' = results /\ idx' = idx]_vars
  /\ [](\A b \in Idx("branch") :
          /\ b = Len(calls) => pc = "driftCheckout"
          /\ b < Len(calls) => /\ calls[b + 1].op = "checkout"
                                /\ calls[b + 1].args = <<cur.forkInfo.branch>>
          /\ (pc = "collect" /\ ret.kind = "return") =>
               Text(ret.value, "error") # "Failed to initialize repository")

C25_Witness ==
  /\ pc = "collect"
  /\ \E b \in Idx("branch") : ~calls[b].ok
  /\ Invoked("revList")
  /\ ret.kind = "return" /\ ret.value.status = "synced"

(***************************************************************************)
(* Identifiers of the configuration file (C26 - C28)                       *)
(***************************************************************************)
\* owner + "/" + name + ":" + branch
Rejoined(info) == info.owner \o "/" \o info.repoName \o ":" \o info.branch

\* syncRepository has parsed the identifiers of the current pair
PairEntered == EngineRunning \/ pc = "collect"

\* C26: every identifier that validation accepted and the engine parsed is
\* reproduced by re-joining its parsed owner, name and branch
C26_RoundTrip ==
  PairEntered =>
    /\ Rejoined(cur.forkInfo) = reposToProcess[idx].fork
    /\ Rejoined(cur.upstreamInfo) = reposToProcess[idx].upstream

\* exactly one ":" overall, exactly one "/" before it, and a non-empty owner,
\* repository and branch
WellFormedId(s) ==
  LET byColon == Split(s, ":")
      bySlash == Split(byColon[1], "/")
  IN /\ Len(byColon) = 2
     /\ Len(bySlash) = 2
     /\ bySlash[1] # "" /\ bySlash[2] # "" /\ byColon[2] # ""

\* the identifiers of a configuration file
IdsOf(c) ==
  {c.accounts.repos[i].upstream : i \in 1..Len(c.accounts.repos)}
    \cup {c.accounts.repos[i].fork : i \in 1..Len(c.accounts.repos)}

\* C27: an identifier that is not of the form owner/repo:branch (one "/"
\* before the colon, one colon overall, no empty part) never reaches the
\* engine, and a configuration is rejected only for such an identifier
C27_OnlyWellFormedIdsReachEngine ==
  /\ PairEntered =>
       /\ WellFormedId(reposToProcess[idx].fork)
       /\ WellFormedId(reposToProcess[idx].upstream)
  /\ pc = "exit" => \E id \in IdsOf(cfg) : ~WellFormedId(id)

\* (account name, fork owner, fork repository name) of the i-th configured pair
TripleOf(i) ==
  LET names == Split(Split(cfg.accounts.repos[i].fork, ":")[1], "/")
  IN <<cfg.accounts.name, First(names), Second(names)>>

\* C28: a pair with another triple than the first pair works in another
\* directory than the first pair, so it finds the working copy untouched
C28_DistinctTriplesDistinctDirectories ==
  (PairEntered /\ idx = 2 /\ TripleOf(2) # TripleOf(1)) =>
    /\ cur.repoDir # cfg.reposBaseDir \o "/" \o TripleOf(1)[1] \o "-"
                        \o TripleOf(1)[2] \o "-" \o TripleOf(1)[3]
    /\ pc = "checkIsRepo" => wc[cur.repoDir] = FreshCopy

(***************************************************************************)
(* One pair at a time (C29)                                                *)
(***************************************************************************)
\* the step is an operation of the engine: a collaborator call is logged
EngineOperation == calls' # calls /\ calls' # <<>>

\* C29: pairs are processed strictly one after another. Every engine
\* operation (VCS command, resolver call, test run) belongs to pair idx and
\* happens when exactly the outcomes of pairs 1..idx-1 are in the summary;
\* a working copy changes only in an engine operation and only in the
\* directory of pair idx; and the loop moves to the next pair only in the
\* step that appends the outcome of the current one.
C29_PairsStrictlySequential ==
  [][ /\ EngineOperation =>
           /\ idx \in 1..Len(reposToProcess)
           /\ Len(results.details) = idx - 1
           /\ idx' = idx /\ results' = results
           /\ calls = <<>> => pc = "loop"
      /\ \A d \in DOMAIN wc :
           wc'[d] # wc[d] =>
             /\ EngineOperation
             /\ d = cfg.reposBaseDir \o "/" \o cfg.accounts.name \o "-"
                      \o Split(Split(reposToProcess[idx].fork, ":")[1], "/")[1] \o "-"
                      \o Split(Split(reposToProcess[idx].fork, ":")[1], "/")[2]
      /\ idx' # idx /\ idx >= 1 =>
           /\ idx' = idx + 1
           /\ calls' = <<>>
           /\ Len(results'.details) = idx
    ]_vars

\* the second pair is being merged after the first pair went through merge,
\* resolver and tests and its outcome was appended
C29_Witness ==
  /\ idx = 2 /\ Invoked("merge") /\ Invoked("resolveConflicts")
  /\ Len(results.details) = 1
  /\ results.details[1].status = "synced"
  /\ results.details[1].usedLLM
  /\ "testsStatus" \in DOMAIN results.details[1]

(***************************************************************************)
(* The resolver's result and the engine's commit (C31)                     *)
(***************************************************************************)
\* C31: when the resolver has returned success every conflicted file is
\* staged and the merge is still uncommitted, the resolver has made no
\* commit, and by the time the resolution is pushed commit was invoked
\* exactly once.
C31_EngineCommitIsTheOnlyCommit ==
  /\ (pc = "commit" /\ cur.resolveResult.success) =>
       /\ wc[cur.repoDir].conflicted = <<>>
       /\ wc[cur.repoDir].merging
       /\ Idx("commit") = {}
  /\ (pc = "pushResolved") => Cardinality(Idx("commit")) = 1

(***************************************************************************)
(* The drift check (C32)                                                   *)
(***************************************************************************)
\* <forkBranch>..upstream/<upstreamBranch> of the current pair
DriftRange == cur.forkInfo.branch \o "..upstream/" \o cur.upstreamInfo.branch

\* call k is the revision list of the drift check, right after a successful
\* checkout of the fork branch and a successful fetch of the upstream remote
DriftCheckedAt(k) ==
  /\ k >= 3
  /\ calls[k].op = "revList" /\ calls[k].args = <<DriftRange>>
  /\ calls[k - 1] = [op |-> "fetch", args |-> <<"upstream">>, ok |-> TRUE]
  /\ calls[k - 2] = [op |-> "checkout", args |-> <<cur.forkInfo.branch>>, ok |-> TRUE]

\* the revision list printed something else than white space
ListedCommits(c) == c.ok /\ Trim(c.res) # ""

\* C32: the drift check is checkout of the fork branch, then fetch of the
\* upstream remote only, then the revision list of
\* <forkBranch>..upstream/<upstreamBranch>; the engine enters the merge
\* exactly when that list is non-empty after trimming, and every merge call
\* comes after such a revision list.
C32_DriftCheckOrderAndGate ==
  /\ [](/\ \A k \in Idx("revList") : DriftCheckedAt(k)
        /\ Cardinality(Idx("revList")) <= 1
        /\ \A m \in Idx("merge") : \E k \in Idx("revList") : k < m /\ ListedCommits(calls[k]))
  /\ [][Appends("revList") =>
          (pc' = "mergeCheckout" <=> ListedCommits(calls'[Len(calls')]))]_vars

\* a merge was invoked after a drift check that listed a commit
C32_Witness ==
  /\ MergeIdx # {}
  /\ \E k \in Idx("revList") : DriftCheckedAt(k) /\ calls[k].res = "c9\n"

(***************************************************************************)
(* The state machine of an engine run (C33)                                *)
(***************************************************************************)
\* the state of the run that a terminal outcome stands for
TerminalOf(r) ==
  IF r.kind # "return" THEN "Errored"
  ELSE IF r.value.status = "skipped" THEN "NoChange"
  ELSE IF r.value.status = "synced" THEN "Merged"
  ELSE IF "message" \in DOMAIN r.value
          /\ Includes(r.value.message, "aborted due to unresolvable conflicts")
       THEN "RolledBack"
  ELSE "Errored"

\* the state of the run at a position of the controller
StateOf(position, completion) ==
  IF position \in {"checkIsRepo", "clone", "updateOrigin", "getRemotes", "addRemote",
                   "updateUpstream", "fetchAll", "initCheckout", "setTracking"}
  THEN "Init"
  ELSE IF position \in {"driftCheckout", "driftFetch", "revList"} THEN "CheckDrift"
  ELSE IF position \in {"mergeCheckout", "revParse", "merge", "push"} THEN "Merging"
  ELSE IF position \in {"status", "abortNoFiles", "resolveConflicts"} THEN "ConflictDetected"
  ELSE IF position \in {"commit", "pushResolved"} THEN "Resolved"
  ELSE IF position \in {"abort", "reset"} THEN "Unresolved"
  ELSE IF position = "runTests" THEN "Merged"
  ELSE IF position = "collect" THEN TerminalOf(completion)
  ELSE "None"

\* the transitions of the state machine
Transitions ==
  {<<"None", "Init">>, <<"Init", "CheckDrift">>,
   <<"CheckDrift", "NoChange">>, <<"CheckDrift", "Merging">>,
   <<"Merging", "Merged">>, <<"Merging", "ConflictDetected">>,
   <<"ConflictDetected", "Resolved">>, <<"ConflictDetected", "Unresolved">>,
   <<"Resolved", "Merged">>, <<"Unresolved", "RolledBack">>}
  \cup {<<st, "Errored">> : st \in {"None", "Init", "CheckDrift", "Merging",
                                     "ConflictDetected", "Resolved", "Unresolved"}}
  \cup {<<st, "None">> : st \in {"NoChange", "Merged", "RolledBack", "Errored"}}

TerminalStates == {"NoChange", "Merged", "RolledBack", "Errored"}

NewCalls == SubSeq(calls', Len(calls) + 1, Len(calls'))

\* the calls of the resolver that work on a file
FileOps == {"readFile", "generateText", "writeFile", "add"}

\* positions of the log whose call works on a file
FileOpsIn(log) == {i \in 1..Len(log) : log[i].op \in FileOps}

\* the call failed, or the generation returned no content
FailedFileOp(c) == ~c.ok \/ ("res" \in DOMAIN c /\ c.res = "")

\* the file was read, regenerated, written and staged without failure
Rewritten(log, f) ==
  \A op \in FileOps : \E i \in 1..Len(log) :
    log[i].op = op /\ log[i].args = <<f>> /\ ~FailedFileOp(log[i])

\* position of a file in the list handed to the resolver, 0 if absent
PositionIn(files, f) ==
  IF \E i \in 1..Len(files) : files[i] = f
  THEN CHOOSE i \in 1..Len(files) : files[i] = f
  ELSE 0

\* C34: in a call of the resolver the files are worked on in list order,
\* the first failing file (read error, generation error, empty content,
\* write or staging error) ends the loop, so no later file is read, written
\* or staged, and the result is success=false with an error text; the result
\* is success=true only when every file of the list was rewritten and
\* staged; the resolver never throws to the engine.
C34_ResolverStopsAtFirstFailure ==
  [][pc = "resolveConflicts" =>
      LET log == NewCalls
          files == cur.conflictedFiles
          result == cur'.resolveResult
      IN /\ \A i, j \in FileOpsIn(log) :
              /\ PositionIn(files, log[i].args[1]) > 0
              /\ i < j => PositionIn(files, log[i].args[1]) <= PositionIn(files, log[j].args[1])
         /\ \A i \in FileOpsIn(log) :
              FailedFileOp(log[i]) =>
                /\ i = Len(log)
                /\ ~result.success
                /\ "error" \in DOMAIN result /\ result.error # ""
                /\ \A k \in 1..Len(files) :
                     k > PositionIn(files, log[i].args[1]) =>
                       \A j \in FileOpsIn(log) : log[j].args # <<files[k]>>
                /\ \A k \in 1..Len(files) :
                     k < PositionIn(files, log[i].args[1]) => Rewritten(log, files[k])
         /\ result.success => \A k \in 1..Len(files) : Rewritten(log, files[k])
         /\ ~result.success => "error" \in DOMAIN result /\ result.error # ""
         /\ ret' = ret /\ ret.kind = "none"
         /\ pc' \in {"commit", "abort"}
         /\ pc' = "commit" <=> result.success
    ]_vars

\* the resolver staged the first file and stopped at the second, whose
\* generation returned no content
C34_Witness ==
  /\ pc = "abort"
  /\ Len(cur.conflictedFiles) = 2
  /\ Rewritten(calls, cur.conflictedFiles[1])
  /\ calls[Len(calls)].op = "generateText"
  /\ calls[Len(calls)].args = <<cur.conflictedFiles[2]>>
  /\ "res" \in DOMAIN calls[Len(calls)] /\ calls[Len(calls)].res = ""
  /\ ~cur.resolveResult.success

(***************************************************************************)
(* Retries of generateText (C35)                                           *)
(***************************************************************************)
\* the retries the configuration allows: maxRetries, 3 when not configured
AllowedRetries == IF "maxRetries" \in DOMAIN cfg THEN cfg.maxRetries ELSE 3

\* the completion has content after trimming
HasContent(c) == c.ok /\ Trim(c.res) # ""

\* C35: generateText makes at most maxRetries + 1 API calls (maxRetries 3
\* when not configured); it returns the first response with content and
\* calls no further; it throws once call maxRetries + 1 has failed.
C35_AtMostMaxRetriesPlusOneCalls ==
  /\ Len(calls) <= AllowedRetries + 1
  /\ \A i \in 1..Len(calls) : HasContent(calls[i]) =>
        i = Len(calls) /\ pc = "llmReturned" /\ ret = [kind |-> "return", value |-> Trim(calls[i].res)]
  /\ (Len(calls) = AllowedRetries + 1 /\ ~HasContent(calls[Len(calls)])) =>
        pc = "llmThrown" /\ ret.kind = "throw"
  /\ (pc = "llmThrown" /\ calls # <<>>) => Len(calls) = AllowedRetries + 1

(***************************************************************************)
(* The scheduled run (C36)                                                 *)
(***************************************************************************)
\* the step is a firing of the sync task
Fires == pc = "scheduled" /\ calls' # calls

\* C36: every firing of the scheduled sync task invokes startSync with the
\* loaded configuration and the filters given on the command line, so that
\* the run-once batch of the same options starts.
C36_FiringStartsSyncWithFilters ==
  [][Fires =>
      /\ \E i \in (Len(calls) + 1)..Len(calls') :
           calls'[i].op = "startSync" /\ calls'[i].args = <<cfg, opts>>
      /\ pc' = "idle"
    ]_vars

(***************************************************************************)
(* The resolver call and the outcome flags (C37)                           *)
(***************************************************************************)
\* C37: an outcome with usedLLM=true has hadConflicts=true; the resolver is
\* called at most once in a run, and its file list is the list that the
\* status query of the run returned.
C37_ResolverOnceWithStatusList ==
  /\ (pc = "collect" /\ ret.kind = "return") =>
       (("usedLLM" \in DOMAIN ret.value /\ ret.value.usedLLM) =>
          ("hadConflicts" \in DOMAIN ret.value /\ ret.value.hadConflicts))
  /\ Cardinality(Idx("resolveConflicts")) <= 1
  /\ \A r \in Idx("resolveConflicts") :
       /\ calls[r].args # <<>>
       /\ \E q \in Idx("status") :
            /\ q < r /\ calls[q].ok /\ calls[q].res = calls[r].args
            /\ \A q2 \in Idx("status") : q2 = q

\* a run whose resolver was handed the two files of the status query and
\* whose outcome carries usedLLM=true
C37_Witness ==
  /\ pc = "collect" /\ ret.kind = "return"
  /\ "usedLLM" \in DOMAIN ret.value /\ ret.value.usedLLM /\ ret.value.hadConflicts
  /\ \E r \in Idx("resolveConflicts") : calls[r].args = <<"a.txt", "b.txt">>

(***************************************************************************)
(* Every outcome is counted (C38)                                          *)
(***************************************************************************)
\* syncedRepos + skippedRepos + failedRepos
Counted(res) == res.syncedRepos + res.skippedRepos + res.failedRepos

\* C38: at every point of a batch the three counters add up to the number
\* of outcomes recorded so far; the summary the batch returns counts one
\* outcome for each selected pair; and every recorded outcome with
\* success=true has status synced or skipped.
C38_EveryOutcomeCounted ==
  /\ Counted(results) = Len(results.details)
  /\ \A i \in 1..Len(results.details) :
       results.details[i].success => results.details[i].status \in {"synced", "skipped"}
  /\ (pc = "finished" /\ "details" \in DOMAIN final.value) =>
       /\ final.value = results
       /\ Counted(final.value) = Len(reposToProcess)

\* a batch of two pairs has returned with one pair skipped and one failed
\* by an exception
C38_Witness ==
  /\ pc = "finished" /\ "details" \in DOMAIN final.value
  /\ Len(reposToProcess) = 2
  /\ final.value.skippedRepos = 1 /\ final.value.failedRepos = 1
  /\ \E i \in 1..2 : final.value.details[i].status = "skipped"

(***************************************************************************)
(* A merge whose push failed (C39)                                         *)
(***************************************************************************)
\* every call of the run so far succeeded
EveryCallSucceeded == \A i \in 1..Len(calls) : calls[i].ok

\* the fork remote has every commit of the local fork branch
RemoteUpToDate == wc[cur.repoDir].pushed = wc[cur.repoDir].head

\* C39: a run in which every operation succeeds leaves the fork remote with
\* every commit of the local fork branch, also when an earlier run merged
\* and failed to push; in particular no run ends with status=skipped while
\* merged commits are still unpushed.
C39_UnpushedMergeIsPushedLater ==
  (pc = "collect" /\ ret.kind = "return") =>
    /\ EveryCallSucceeded => RemoteUpToDate
    /\ ret.value.status = "skipped" => RemoteUpToDate

(***************************************************************************)
(* When push is invoked (C40)                                              *)
(***************************************************************************)
\* call p comes after a merge that succeeded, with no conflict handling before p
AfterCleanMerge(p) ==
  /\ \E m \in MergeIdx : m < p /\ calls[m].ok
  /\ \A q \in Idx("status") \cup Idx("resolveConflicts") : q > p

\* call p comes after a successful resolver result and a successful commit
\* of the engine that follows it
AfterResolvedCommit(p) ==
  /\ cur.resolveResult.success
  /\ \E r \in Idx("resolveConflicts") : \E c \in Idx("commit") :
       /\ r < c /\ c < p /\ calls[c].ok
       /\ calls[c].args = <<"Automated merge conflict resolution from upstream/"
                              \o cur.upstreamInfo.branch>>

\* calls after which the run is on a path without push: a failed step of
\* initializeRepository, a revision list without commits, an abort of the
\* merge (empty conflict list or resolver failure), a rollback
ClosesPushPath(i) ==
  \/ i \in AbortIdx \cup Idx("reset")
  \/ calls[i].op = "revList" /\ (~calls[i].ok \/ Trim(calls[i].res) = "")
  \/ ~calls[i].ok /\ calls[i].op \in {"checkIsRepo", "clone", "getRemotes", "addRemote",
                                         "updateRemoteUrl", "fetch", "checkout", "revParse",
                                         "status", "GitClient", "mkdirSync"}

====
